---- MODULE Spec2Model ----
(***************************************************************************)
(* Streaming speech-to-text adapter (nupi-ai/plugin-stt-local-whisper).    *)
(*                                                                         *)
(* The module models                                                       *)
(*   - the text helpers of internal/engine/textutil.go,                    *)
(*   - the stub engine and the Go native engine (internal/engine),         *)
(*   - the session dispatcher Server.StreamTranscription                   *)
(*     (internal/server/server.go) with two concurrent streams that share  *)
(*     the one engine the Server was built with.                           *)
(*                                                                         *)
(* Texts are sequences of one-character strings, audio buffers are byte    *)
(* counts, confidences are hundredths (0.42 is 42), token lists are        *)
(* sequences of token ids.  The transcriber (whisper.cpp) is external: a   *)
(* call into it is a nondeterministic outcome drawn from Outcomes.         *)
(***************************************************************************)
EXTENDS Integers, Sequences, FiniteSets, TLC

(***************************************************************************)
(* Bounds of the model.                                                    *)
(***************************************************************************)
MaxCalls == 3
MaxReqs == 2
MaxSharedReqs == 1

(***************************************************************************)
(* Program constants.                                                      *)
(***************************************************************************)
whisperSampleRate == 16000
bytesPerSample == 2
windowSeconds == 30
targetWindowSeconds == 10
minFrameMillis == 3000
maxAudioBytes == whisperSampleRate * bytesPerSample * windowSeconds
targetWindowBytes == whisperSampleRate * bytesPerSample * targetWindowSeconds
minWhisperBytes == (whisperSampleRate * bytesPerSample * minFrameMillis) \div 1000
maxPromptTokens == 224

Min(a, b) == IF a < b THEN a ELSE b
Max(a, b) == IF a > b THEN a ELSE b

(***************************************************************************)
(* Strings.                                                                *)
(***************************************************************************)
AUTO == <<"a", "u", "t", "o">>
CLIENT == <<"c", "l", "i", "e", "n", "t">>

IsSpace(c) == c \in {" ", "\t", "\r", "\n", "\f"}

Cutset == {" ", "\t", "\r", "\n"}

RECURSIVE TrimLeftCutset(_, _)
TrimLeftCutset(s, cutset) ==
    IF s = <<>> THEN <<>>
    ELSE IF Head(s) \in cutset THEN TrimLeftCutset(Tail(s), cutset) ELSE s

RECURSIVE TrimLeft(_)
TrimLeft(s) ==
    IF s = <<>> THEN <<>>
    ELSE IF IsSpace(Head(s)) THEN TrimLeft(Tail(s)) ELSE s

RECURSIVE TrimRight(_)
TrimRight(s) ==
    IF s = <<>> THEN <<>>
    ELSE IF IsSpace(s[Len(s)]) THEN TrimRight(SubSeq(s, 1, Len(s) - 1)) ELSE s

TrimSpaceLeftOnly(s) == TrimLeft(s)

TrimSpace(s) == TrimRight(TrimLeft(s))

LowerChar(c) ==
    CASE c = "A" -> "a"
      [] c = "U" -> "u"
      [] c = "T" -> "t"
      [] c = "O" -> "o"
      [] c = "E" -> "e"
      [] c = "N" -> "n"
      [] c = "P" -> "p"
      [] c = "L" -> "l"
      [] OTHER -> c

ToLower(s) == [i \in 1..Len(s) |-> LowerChar(s[i])]

EqualFold(s, t) == ToLower(s) = ToLower(t)

diffTranscriptUntrimmedDelta(previous, current) ==
    LET prevTrimmed == TrimSpace(previous)
        currTrimmed == TrimSpace(current)
    IN  IF prevTrimmed = <<>> THEN currTrimmed
        ELSE IF prevTrimmed = currTrimmed THEN <<>>
        ELSE IF Len(prevTrimmed) > Len(currTrimmed) THEN currTrimmed
        ELSE IF \E i \in 1..Len(prevTrimmed) : currTrimmed[i] # prevTrimmed[i]
             THEN currTrimmed
        ELSE SubSeq(currTrimmed, Len(prevTrimmed) + 1, Len(currTrimmed))

diffTranscript(previous, current) ==
    LET prevTrimmed == TrimSpace(previous)
        currTrimmed == TrimSpace(current)
    IN  IF prevTrimmed = <<>> THEN currTrimmed
        ELSE IF prevTrimmed = currTrimmed THEN <<>>
        ELSE IF Len(prevTrimmed) > Len(currTrimmed) THEN currTrimmed
        ELSE IF \E i \in 1..Len(prevTrimmed) : currTrimmed[i] # prevTrimmed[i]
             THEN currTrimmed
        ELSE TrimLeftCutset(SubSeq(currTrimmed, Len(prevTrimmed) + 1, Len(currTrimmed)), Cutset)

preferLanguage(value) ==
    LET trimmed == TrimSpace(value)
    IN  IF trimmed = <<>> \/ EqualFold(trimmed, AUTO) THEN <<>> ELSE ToLower(trimmed)

\* normaliseLanguage that looks at the forced language before the previous one.
normaliseLanguageForcedFirst(candidate, previous, forced) ==
    IF preferLanguage(candidate) # <<>> THEN preferLanguage(candidate)
    ELSE IF preferLanguage(forced) # <<>> THEN preferLanguage(forced)
    ELSE IF preferLanguage(previous) # <<>> THEN preferLanguage(previous)
    ELSE AUTO

normaliseLanguage(candidate, previous, forced) ==
    IF preferLanguage(candidate) # <<>> THEN preferLanguage(candidate)
    ELSE IF preferLanguage(previous) # <<>> THEN preferLanguage(previous)
    ELSE IF preferLanguage(forced) # <<>> THEN preferLanguage(forced)
    ELSE IF TrimSpace(candidate) # <<>> THEN AUTO
    ELSE IF TrimSpace(previous) # <<>> THEN AUTO
    ELSE IF TrimSpace(forced) # <<>> THEN TrimSpace(forced)
    ELSE AUTO

(***************************************************************************)
(* Results and errors.                                                     *)
(***************************************************************************)
NoErr == "nil"
CtxErrs == {"Canceled", "DeadlineExceeded"}

Result(text, confidence, final) ==
    [Text |-> text, Confidence |-> confidence, Final |-> final]

Reply(e, results, err, ran) ==
    [eng |-> e, results |-> results, err |-> err, ran |-> ran]

(***************************************************************************)
(* Stub engine.                                                            *)
(***************************************************************************)
StubReceivedText(variant, n) == <<"[stub:", variant, "] received ", ToString(n), " bytes">>
StubTotalText(variant, n) == <<"[stub:", variant, "] total bytes ", ToString(n)>>
StubClosedText == <<"[stub] stream closed">>

NewStubEngine(variant) ==
    [kind |-> "stub", modelVariant |-> variant, totalBytes |-> 0,
     ctxOpen |-> FALSE, audio |-> 0, lastSegment |-> 0, promptTokens |-> <<>>,
     lastText |-> <<>>, language |-> <<>>, lastConf |-> 0, defaultLang |-> <<>>]

StubTranscribeSegment(e, audio, opts) ==
    IF audio = 0 THEN Reply(e, <<>>, NoErr, FALSE)
    ELSE Reply([e EXCEPT !.totalBytes = @ + audio],
               <<Result(StubReceivedText(e.modelVariant, audio), 42, opts.Final)>>,
               NoErr, FALSE)

StubFlushText(e) ==
    IF e.totalBytes > 0 THEN StubTotalText(e.modelVariant, e.totalBytes)
    ELSE StubClosedText

\* StubFlush without the reset of the byte counter.
StubFlushKeepsCount(e, opts) ==
    Reply(e, <<Result(StubFlushText(e), 100, TRUE)>>, NoErr, FALSE)

StubFlush(e, opts) ==
    Reply([e EXCEPT !.totalBytes = 0],
          <<Result(StubFlushText(e), 100, TRUE)>>,
          NoErr, FALSE)

(***************************************************************************)
(* Go native engine.  A call is one atomic step; `ctx` is the state of     *)
(* the call's context on entry ("live" or one of CtxErrs) and `out` is     *)
(* what the transcriber does if the call reaches it.                       *)
(***************************************************************************)
NewNativeEngine(variant) ==
    [kind |-> "native", modelVariant |-> variant, totalBytes |-> 0,
     ctxOpen |-> TRUE, audio |-> 0, lastSegment |-> 0, promptTokens |-> <<>>,
     lastText |-> <<>>, language |-> <<>>, lastConf |-> 0, defaultLang |-> <<>>]

resetLocked(e) ==
    [e EXCEPT !.audio = 0, !.lastSegment = 0, !.promptTokens = <<>>,
              !.lastText = <<>>, !.language = <<>>, !.lastConf = 0]

collectPromptTokens(e, out) ==
    IF out.nseg = 0 THEN e.promptTokens
    ELSE IF Len(out.tokens) > maxPromptTokens
         THEN SubSeq(out.tokens, Len(out.tokens) - maxPromptTokens + 1, Len(out.tokens))
         ELSE out.tokens

collectTranscriptAggregate(out) ==
    IF out.nseg = 0 THEN [Text |-> <<>>, Confidence |-> 0]
    ELSE [Text |-> TrimSpace(out.text), Confidence |-> out.conf]

\* runInference: [err, agg, tokens, ran]; `ran` tells whether whisper_full was called.
runInference(e, ctx, audio, out) ==
    LET none == [Text |-> <<>>, Confidence |-> 0]
    IN  IF ctx # "live"
        THEN [err |-> ctx, agg |-> none, tokens |-> e.promptTokens, ran |-> FALSE]
        ELSE IF audio = 0 \/ audio \div 2 = 0
        THEN [err |-> NoErr, agg |-> none, tokens |-> e.promptTokens, ran |-> FALSE]
        ELSE CASE out.kind = "early" ->
                    [err |-> out.cerr, agg |-> none, tokens |-> e.promptTokens, ran |-> FALSE]
               [] out.kind = "nostate" ->
                    [err |-> "InitStateFailed", agg |-> none, tokens |-> e.promptTokens, ran |-> FALSE]
               [] out.kind = "abort" ->
                    [err |-> out.cerr, agg |-> none, tokens |-> e.promptTokens, ran |-> TRUE]
               [] out.kind = "fail" ->
                    [err |-> "InferenceFailed", agg |-> none, tokens |-> e.promptTokens, ran |-> TRUE]
               [] OTHER ->
                    [err |-> NoErr, agg |-> collectTranscriptAggregate(out),
                     tokens |-> collectPromptTokens(e, out), ran |-> TRUE]

\* The window without the cut to maxAudioBytes.
NativeWindowUncapped(e, total) ==
    LET overlap == IF e.lastSegment > 0
                   THEN Min(e.lastSegment, Max(0, targetWindowBytes - total))
                   ELSE 0
    IN  overlap + total

NativeWindow(e, total) ==
    LET overlap == IF e.lastSegment > 0
                   THEN Min(e.lastSegment, Max(0, targetWindowBytes - total))
                   ELSE 0
    IN  Min(overlap + total, maxAudioBytes)

\* The part of TranscribeSegment after runInference returned `inf`.
TranscribeAfterInference(e1, lang, buffer, previous, inf) ==
    IF inf.err \in CtxErrs THEN Reply(e1, <<>>, NoErr, inf.ran)
    ELSE IF inf.err # NoErr THEN Reply(e1, <<>>, inf.err, inf.ran)
    ELSE Reply([e1 EXCEPT !.promptTokens = inf.tokens, !.language = lang, !.audio = 0,
                          !.lastSegment = buffer, !.lastText = inf.agg.Text,
                          !.lastConf = inf.agg.Confidence],
               IF diffTranscript(previous, inf.agg.Text) = <<>> THEN <<>>
               ELSE <<Result(diffTranscript(previous, inf.agg.Text),
                             inf.agg.Confidence, FALSE)>>,
               NoErr, inf.ran)

TranscribeBuffered(e, e1, lang, out) ==
    IF e1.audio < minWhisperBytes THEN Reply(e1, <<>>, NoErr, FALSE)
    ELSE TranscribeAfterInference(e1, lang, NativeWindow(e, e1.audio), e.lastText,
                                  runInference(e1, "live", NativeWindow(e, e1.audio), out))

\* TranscribeSegment that buffers the audio before it looks at the context.
NativeTranscribeSegmentLateCheck(e, ctx, audio, opts, out) ==
    IF audio = 0 THEN Reply(e, <<>>, IF ctx # "live" THEN ctx ELSE NoErr, FALSE)
    ELSE IF ctx # "live" THEN Reply([e EXCEPT !.audio = @ + audio], <<>>, ctx, FALSE)
    ELSE TranscribeBuffered(e, [e EXCEPT !.audio = @ + audio],
                            normaliseLanguage(opts.Language, e.language, e.defaultLang), out)

NativeTranscribeSegment(e, ctx, audio, opts, out) ==
    IF ctx # "live" THEN Reply(e, <<>>, ctx, FALSE)
    ELSE IF audio = 0 THEN Reply(e, <<>>, NoErr, FALSE)
    ELSE TranscribeBuffered(e, [e EXCEPT !.audio = @ + audio],
                            normaliseLanguage(opts.Language, e.language, e.defaultLang), out)

\* Flush that returns the text of the last inference as it is, empty or not.
FlushAfterInferenceAlwaysEmits(e, inf) ==
    IF inf.err \in CtxErrs THEN Reply(e, <<>>, NoErr, inf.ran)
    ELSE IF inf.err # NoErr THEN Reply(resetLocked(e), <<>>, inf.err, inf.ran)
    ELSE Reply(resetLocked(e), <<Result(inf.agg.Text, inf.agg.Confidence, TRUE)>>,
               NoErr, inf.ran)

\* The part of Flush after the last inference (or its absence) gave `inf`.
FlushAfterInference(e, inf) ==
    IF inf.err \in CtxErrs THEN Reply(e, <<>>, NoErr, inf.ran)
    ELSE IF inf.err # NoErr THEN Reply(resetLocked(e), <<>>, inf.err, inf.ran)
    ELSE Reply(resetLocked(e),
               IF TrimSpace(inf.agg.Text) = <<>> THEN <<>>
               ELSE <<Result(TrimSpace(inf.agg.Text), inf.agg.Confidence, TRUE)>>,
               NoErr, inf.ran)

NativeFlush(e, ctx, opts, out) ==
    IF ctx # "live" THEN Reply(e, <<>>, ctx, FALSE)
    ELSE FlushAfterInference(e,
            IF e.audio > 0 THEN runInference(e, "live", e.audio, out)
            ELSE [err |-> NoErr, agg |-> [Text |-> e.lastText, Confidence |-> e.lastConf],
                  tokens |-> e.promptTokens, ran |-> FALSE])

NativeClose(e) == [resetLocked(e) EXCEPT !.ctxOpen = FALSE]

SetDefaultLanguage(e, lang) ==
    IF e.kind = "native" THEN [e EXCEPT !.defaultLang = preferLanguage(lang)] ELSE e

(***************************************************************************)
(* The engine of package internal/whisper (the earlier NativeEngine): one  *)
(* growing audio buffer with a hard cap, no overlap, no abort callback.    *)
(***************************************************************************)
legacyMaxAudioBytes == 10 * 1024 * 1024

normaliseLanguage2(candidate, fallback) ==
    IF TrimSpace(candidate) # <<>> THEN TrimSpace(candidate)
    ELSE IF TrimSpace(fallback) # <<>> THEN TrimSpace(fallback)
    ELSE AUTO

NewLegacyEngine(variant) ==
    [kind |-> "legacy", modelVariant |-> variant, totalBytes |-> 0,
     ctxOpen |-> TRUE, audio |-> 0, lastSegment |-> 0, promptTokens |-> <<>>,
     lastText |-> <<>>, language |-> <<>>, lastConf |-> 0, defaultLang |-> <<>>]

LegacyResetLocked(e) == [e EXCEPT !.audio = 0, !.lastText = <<>>, !.language = <<>>]

collectTextFromState(out) == IF out.nseg = 0 THEN <<>> ELSE TrimSpace(out.text)

\* runInference of internal/whisper: [err, text, ran].
LegacyRunInference(ctx, audio, out) ==
    IF ctx # "live" THEN [err |-> ctx, text |-> <<>>, ran |-> FALSE]
    ELSE IF audio = 0 \/ audio \div 2 = 0 THEN [err |-> NoErr, text |-> <<>>, ran |-> FALSE]
    ELSE CASE out.kind = "early" -> [err |-> out.cerr, text |-> <<>>, ran |-> FALSE]
           [] out.kind = "nostate" -> [err |-> "InitStateFailed", text |-> <<>>, ran |-> FALSE]
           [] out.kind \in {"abort", "fail"} ->
                [err |-> "InferenceFailed", text |-> <<>>, ran |-> TRUE]
           [] OTHER -> [err |-> NoErr, text |-> collectTextFromState(out), ran |-> TRUE]

LegacyTranscribeAfterInference(e1, lang, previous, inf) ==
    IF inf.err # NoErr THEN Reply(e1, <<>>, inf.err, inf.ran)
    ELSE Reply([e1 EXCEPT !.language = lang, !.lastText = inf.text],
               IF diffTranscript(previous, inf.text) = <<>> THEN <<>>
               ELSE <<Result(diffTranscript(previous, inf.text), 0, FALSE)>>,
               NoErr, inf.ran)

LegacyTranscribeSegment(e, ctx, audio, opts, out) ==
    IF ctx # "live" THEN Reply(e, <<>>, ctx, FALSE)
    ELSE IF audio = 0 THEN Reply(e, <<>>, NoErr, FALSE)
    ELSE IF e.audio + audio > legacyMaxAudioBytes
         THEN Reply(e, <<>>, "AudioBufferOverflow", FALSE)
    ELSE LegacyTranscribeAfterInference([e EXCEPT !.audio = @ + audio],
                                        normaliseLanguage2(opts.Language, e.language),
                                        e.lastText,
                                        LegacyRunInference("live", e.audio + audio, out))

LegacyFlushAfterInference(e, inf) ==
    IF inf.err # NoErr THEN Reply(LegacyResetLocked(e), <<>>, inf.err, inf.ran)
    ELSE Reply(LegacyResetLocked(e),
               IF TrimSpace(inf.text) = <<>> THEN <<>>
               ELSE <<Result(TrimSpace(inf.text), 100, TRUE)>>,
               NoErr, inf.ran)

LegacyFlush(e, ctx, opts, out) ==
    IF ctx # "live" THEN Reply(e, <<>>, ctx, FALSE)
    ELSE LegacyFlushAfterInference(e,
            IF e.audio > 0 THEN LegacyRunInference("live", e.audio, out)
            ELSE [err |-> NoErr, text |-> e.lastText, ran |-> FALSE])

LegacyClose(e) == [LegacyResetLocked(e) EXCEPT !.ctxOpen = FALSE]

(***************************************************************************)
(* The C++ streaming context (native_stream.cpp).  Sample buffers are      *)
(* sample counts; a token is a small integer whose piece is Piece(t).      *)
(* `o` is what whisper_full does with the window: o.ok, the tokens of the  *)
(* result and the mean token probability; o.malloc tells whether the       *)
(* allocation of the returned string succeeds.                             *)
(***************************************************************************)
kSampleRate == 16000
kVadWindowMs == 2000
kVadLastMs == 1000

samples_from_ms(ms) == IF ms <= 0 THEN 0 ELSE (kSampleRate * ms) \div 1000

TextTokens == {1, 2, 3}
TokenEot == 9

Piece(t) ==
    CASE t = 1 -> <<" ", "a">>
      [] t = 2 -> <<" ", "b">>
      [] t = 3 -> <<" ", "c">>
      [] OTHER -> <<"[_EOT_]">>

is_text_token(t) == t \in TextTokens

\* The pieces of the text tokens lo..hi, concatenated in order (by halves,
\* to keep the evaluation shallow for long token lists).
RECURSIVE PiecesBetween(_, _, _)
PiecesBetween(tokens, lo, hi) ==
    IF lo > hi THEN <<>>
    ELSE IF lo = hi THEN (IF is_text_token(tokens[lo]) THEN Piece(tokens[lo]) ELSE <<>>)
    ELSE PiecesBetween(tokens, lo, (lo + hi) \div 2)
         \o PiecesBetween(tokens, (lo + hi) \div 2 + 1, hi)

PiecesFrom(tokens, i) == PiecesBetween(tokens, i, Len(tokens))

\* start_index is 0-based, as in the source.
tokens_to_text(tokens, start_index) ==
    IF start_index >= Len(tokens) THEN <<>>
    ELSE TrimSpace(PiecesFrom(tokens, start_index + 1))

collect_text(o) ==
    IF o.tokens = <<>> THEN <<>> ELSE TrimSpace(PiecesFrom(o.tokens, 1))

collect_tokens(ws, o) ==
    [ws EXCEPT !.current_tokens = o.tokens,
               !.current_text_tokens = SelectSeq(o.tokens, is_text_token)]

\* The number of tokens equal to `x` at the end of the first n tokens, counted
\* up to 8.
RECURSIVE Repetition(_, _, _, _)
Repetition(tokens, n, x, repetition) ==
    IF n = 0 \/ repetition >= 8 \/ tokens[n] # x THEN repetition
    ELSE Repetition(tokens, n - 1, x, repetition + 1)

\* Defined in the source and called from nowhere.
has_repetition_loop(tokens) ==
    IF Len(tokens) < 8 THEN FALSE
    ELSE Repetition(tokens, Len(tokens), tokens[Len(tokens)], 0) >= 8

\* The inner while loop from the 0-based start i: the number of tokens up to
\* the first mismatch, the end of previous or the end of current.
MatchLen(previous, current, i) ==
    LET limit == Min(Len(previous) - i, Len(current))
        stops == {m \in 0..limit : m = limit \/ previous[i + m + 1] # current[m + 1]}
    IN  CHOOSE m \in stops : \A j \in stops : m <= j

\* The outer loop: the largest match_len over the starts 0..size-1.
BestMatch(previous, current) ==
    LET lens == {MatchLen(previous, current, i) : i \in 0..(Len(previous) - 1)}
    IN  CHOOSE m \in lens : \A j \in lens : j <= m

find_common_prefix(previous, current) ==
    IF previous = <<>> THEN 0 ELSE BestMatch(previous, current)

\* extract_new_text: [ws, delta].
extract_new_text(ws) ==
    IF ws.current_text_tokens = <<>> THEN [ws |-> ws, delta |-> <<>>]
    ELSE IF find_common_prefix(ws.previous_text_tokens, ws.current_text_tokens)
                >= Len(ws.current_text_tokens)
    THEN [ws |-> ws, delta |-> <<>>]
    ELSE [ws |-> [ws EXCEPT !.previous_text_tokens = ws.current_text_tokens],
          delta |-> tokens_to_text(ws.current_text_tokens,
                       find_common_prefix(ws.previous_text_tokens, ws.current_text_tokens))]

\* run_inference: [ws, rc, text, conf].
run_inference(ws, o) ==
    IF ~o.ok THEN [ws |-> ws, rc |-> -2, text |-> <<>>, conf |-> 0]
    ELSE [ws |-> collect_tokens([ws EXCEPT !.last_confidence =
                                    IF o.tokens = <<>> THEN 0 ELSE o.conf], o),
          rc |-> 0, text |-> collect_text(o),
          conf |-> IF o.tokens = <<>> THEN 0 ELSE o.conf]

\* The samples held by a buffer: the runs [from, to) of the numbered samples
\* the stream has received, in the order they are stored. The pcmf32* fields
\* are the sizes of the vectors, the *_data fields their elements.
Samples(from, n) == IF n <= 0 THEN <<>> ELSE <<[from |-> from, to |-> from + n]>>

RECURSIVE Size(_)
Size(c) == IF c = <<>> THEN 0 ELSE (c[1].to - c[1].from) + Size(Tail(c))

Join(a, b) ==
    IF a = <<>> THEN b
    ELSE IF b = <<>> THEN a
    ELSE IF a[Len(a)].to = b[1].from
    THEN SubSeq(a, 1, Len(a) - 1) \o <<[from |-> a[Len(a)].from, to |-> b[1].to]>> \o Tail(b)
    ELSE a \o b

\* The elements end() - k .. end().
RECURSIVE LastSamples(_, _)
LastSamples(c, k) ==
    IF k <= 0 \/ c = <<>> THEN <<>>
    ELSE IF c[Len(c)].to - c[Len(c)].from >= k
    THEN <<[from |-> c[Len(c)].to - k, to |-> c[Len(c)].to]>>
    ELSE Join(LastSamples(SubSeq(c, 1, Len(c) - 1), k - (c[Len(c)].to - c[Len(c)].from)),
              <<c[Len(c)]>>)

\* `handed` is the content of pcmf32 the transcriber was called with.
StreamReply(ws, rc, text, conf, ran, window) ==
    [ws |-> ws, rc |-> rc, text |-> text, conf |-> conf, ran |-> ran, window |-> window,
     handed |-> IF ran THEN ws.data ELSE <<>>]

whisper_stream_create(cfgS) ==
    [use_vad |-> cfgS.use_vad,
     no_context |-> ~(cfgS.keep_context /\ ~cfgS.use_vad),
     n_samples_step |-> IF cfgS.use_vad THEN 0 ELSE Max(samples_from_ms(cfgS.step_ms), 1),
     n_samples_len |-> IF cfgS.use_vad THEN Max(samples_from_ms(cfgS.length_ms), 1)
                       ELSE Max(samples_from_ms(cfgS.length_ms),
                                Max(samples_from_ms(cfgS.step_ms), 1)),
     n_samples_keep |-> IF cfgS.use_vad THEN 0
                        ELSE Min(samples_from_ms(cfgS.keep_ms),
                                 Max(samples_from_ms(cfgS.step_ms), 1)),
     vad_window_samples |-> samples_from_ms(kVadWindowMs),
     n_new_line |-> IF ~cfgS.use_vad /\ cfgS.step_ms > 0
                    THEN Max(1, (cfgS.length_ms \div cfgS.step_ms) - 1) ELSE 1,
     n_iter |-> 0,
     pcmf32_new |-> 0, pcmf32 |-> 0, pcmf32_old |-> 0, pcmf32_vad |-> 0,
     received |-> 0, new_data |-> <<>>, data |-> <<>>, old_data |-> <<>>, vad_data |-> <<>>,
     last_window |-> <<>>, transcript |-> <<>>, last_confidence |-> 0,
     prompt_tokens |-> <<>>, current_tokens |-> <<>>,
     current_text_tokens |-> <<>>, previous_text_tokens |-> <<>>]

Append2(transcript, delta) ==
    IF transcript # <<>> THEN transcript \o <<" ">> \o delta ELSE delta

\* transcribe_vad_buffer after run_inference returned `inf`.
VadAfterInference(inf, o, window) ==
    IF inf.rc # 0 THEN StreamReply(inf.ws, -2, <<>>, 0, TRUE, window)
    ELSE IF TrimSpace(inf.text) = <<>>
    THEN StreamReply([inf.ws EXCEPT !.last_window = <<>>, !.last_confidence = inf.conf],
                     0, <<>>, 0, TRUE, window)
    ELSE IF ~o.malloc
    THEN StreamReply([inf.ws EXCEPT !.last_window = TrimSpace(inf.text),
                                    !.last_confidence = inf.conf],
                     -3, <<>>, inf.conf, TRUE, window)
    ELSE [StreamReply([inf.ws EXCEPT !.last_window = TrimSpace(inf.text),
                                     !.last_confidence = inf.conf,
                                     !.transcript = <<>>, !.prompt_tokens = <<>>,
                                     !.current_tokens = <<>>, !.current_text_tokens = <<>>,
                                     !.previous_text_tokens = <<>>,
                                     !.pcmf32 = 0, !.pcmf32_old = 0,
                                     !.data = <<>>, !.old_data = <<>>],
                      1, TrimSpace(inf.text), inf.conf, TRUE, window)
            EXCEPT !.handed = inf.ws.data]

VadTake(ws) ==
    IF ws.n_samples_len > 0 THEN Min(ws.n_samples_len, ws.pcmf32_vad) ELSE ws.pcmf32_vad

transcribe_vad_buffer(ws, o) ==
    IF VadTake(ws) <= 0
    THEN StreamReply([ws EXCEPT !.pcmf32_vad = 0, !.vad_data = <<>>], 0, <<>>, 0, FALSE, 0)
    ELSE VadAfterInference(
            run_inference([ws EXCEPT !.pcmf32 = VadTake(ws), !.pcmf32_vad = 0,
                                     !.data = LastSamples(ws.vad_data, VadTake(ws)),
                                     !.vad_data = <<>>], o),
            o, VadTake(ws))

\* The size test of should_trigger_vad; the silence test itself depends on
\* the samples and is an input of the call.
should_trigger_vad(ws, silence) ==
    /\ ~(ws.vad_window_samples <= 0 \/ ws.pcmf32_vad < ws.vad_window_samples)
    /\ silence

\* The append without the cap of the rolling tail.
VadAppendUncapped(ws, n) ==
    [ws EXCEPT !.pcmf32_vad = @ + n,
               !.vad_data = Join(@, Samples(ws.received, n)),
               !.received = @ + n]

VadAppend(ws, n) ==
    [ws EXCEPT !.pcmf32_vad =
                   IF ws.n_samples_len > 0
                   THEN Min(@ + n, ws.n_samples_len + ws.vad_window_samples)
                   ELSE @ + n,
               !.vad_data =
                   IF ws.n_samples_len > 0
                   THEN LastSamples(Join(@, Samples(ws.received, n)),
                                    Min(ws.pcmf32_vad + n,
                                        ws.n_samples_len + ws.vad_window_samples))
                   ELSE Join(@, Samples(ws.received, n)),
               !.received = @ + n]

\* insert(pcmf32_new.end(), samples, samples + sample_count)
NewAppend(ws, n) ==
    [ws EXCEPT !.pcmf32_new = @ + n,
               !.new_data = Join(@, Samples(ws.received, n)),
               !.received = @ + n]

\* n_samples_take that forgets n_samples_keep.
n_samples_takeWithoutKeep(ws, n_samples_new) ==
    Min(ws.pcmf32_old, Max(0, ws.n_samples_len - n_samples_new))

n_samples_take(ws, n_samples_new) ==
    Min(ws.pcmf32_old, Max(0, ws.n_samples_keep + ws.n_samples_len - n_samples_new))

\* The reset run after every inference, whatever n_new_line is.
IterationResetEveryTime(ws) ==
    [ws EXCEPT !.n_iter = @ + 1,
               !.pcmf32_old = Min(ws.n_samples_keep, ws.pcmf32),
               !.old_data = LastSamples(ws.data, Min(ws.n_samples_keep, ws.pcmf32)),
               !.prompt_tokens = IF ~ws.no_context THEN ws.current_tokens ELSE @]

\* The iteration counter and the periodic reset of pcmf32_old / prompt_tokens.
IterationReset(ws) ==
    IF (ws.n_iter + 1) % ws.n_new_line = 0
    THEN [ws EXCEPT !.n_iter = @ + 1,
                    !.pcmf32_old = Min(ws.n_samples_keep, ws.pcmf32),
                    !.old_data = LastSamples(ws.data, Min(ws.n_samples_keep, ws.pcmf32)),
                    !.prompt_tokens = IF ~ws.no_context THEN ws.current_tokens ELSE @]
    ELSE [ws EXCEPT !.n_iter = @ + 1]

\* whisper_stream_process after extract_new_text gave `ex`.
ProcessAfterExtract(ex, conf, o, window) ==
    IF ex.delta = <<>>
    THEN StreamReply([IterationReset(ex.ws) EXCEPT !.last_confidence = conf],
                     0, <<>>, 0, TRUE, window)
    ELSE StreamReply([IterationReset(ex.ws) EXCEPT
                          !.transcript = Append2(@, ex.delta), !.last_confidence = conf],
                     IF o.malloc THEN 1 ELSE -3,
                     IF o.malloc THEN ex.delta ELSE <<>>, conf, TRUE, window)

ProcessAfterInference(inf, o, window) ==
    IF inf.rc # 0 THEN StreamReply(inf.ws, -2, <<>>, 0, TRUE, window)
    ELSE ProcessAfterExtract(extract_new_text([inf.ws EXCEPT !.last_window = inf.text]),
                             inf.conf, o, window)

\* The window: the last n_samples_take elements of pcmf32_old, then pcmf32_new.
WindowData(ws) ==
    Join(LastSamples(ws.old_data, n_samples_take(ws, ws.pcmf32_new)), ws.new_data)

\* `ws` holds the appended samples; n_samples_new = pcmf32_new.size().
ProcessWindow(ws, n_samples_new, o) ==
    ProcessAfterInference(
        run_inference([ws EXCEPT !.pcmf32 = n_samples_new + n_samples_take(ws, n_samples_new),
                                 !.pcmf32_new = 0,
                                 !.pcmf32_old = n_samples_new + n_samples_take(ws, n_samples_new),
                                 !.data = WindowData(ws),
                                 !.new_data = <<>>,
                                 !.old_data = WindowData(ws)],
                      o),
        o, n_samples_new + n_samples_take(ws, n_samples_new))

\* whisper_stream_process that counts a call below the step as an iteration.
whisper_stream_processCountsEveryCall(ws, sample_count, o, silence) ==
    IF sample_count <= 0 THEN StreamReply(ws, -1, <<>>, 0, FALSE, 0)
    ELSE IF ws.use_vad
    THEN IF ~should_trigger_vad(VadAppend(ws, sample_count), silence)
         THEN StreamReply(VadAppend(ws, sample_count), 0, <<>>, 0, FALSE, 0)
         ELSE transcribe_vad_buffer(VadAppend(ws, sample_count), o)
    ELSE IF ws.pcmf32_new + sample_count < ws.n_samples_step
    THEN StreamReply(IterationReset(NewAppend(ws, sample_count)), 0, <<>>, 0, FALSE, 0)
    ELSE ProcessWindow(NewAppend(ws, sample_count), ws.pcmf32_new + sample_count, o)

whisper_stream_process(ws, sample_count, o, silence) ==
    IF sample_count <= 0 THEN StreamReply(ws, -1, <<>>, 0, FALSE, 0)
    ELSE IF ws.use_vad
    THEN IF ~should_trigger_vad(VadAppend(ws, sample_count), silence)
         THEN StreamReply(VadAppend(ws, sample_count), 0, <<>>, 0, FALSE, 0)
         ELSE transcribe_vad_buffer(VadAppend(ws, sample_count), o)
    ELSE IF ws.pcmf32_new + sample_count < ws.n_samples_step
    THEN StreamReply(NewAppend(ws, sample_count), 0, <<>>, 0, FALSE, 0)
    ELSE ProcessWindow(NewAppend(ws, sample_count), ws.pcmf32_new + sample_count, o)

StreamClear(ws) ==
    [ws EXCEPT !.pcmf32 = 0, !.pcmf32_old = 0, !.pcmf32_new = 0, !.last_window = <<>>,
               !.data = <<>>, !.old_data = <<>>, !.new_data = <<>>,
               !.transcript = <<>>, !.prompt_tokens = <<>>, !.current_tokens = <<>>,
               !.current_text_tokens = <<>>, !.previous_text_tokens = <<>>]

\* whisper_stream_flush from extract_new_text on.
FlushFinish(ex, o, ran, window) ==
    IF TrimSpace(IF ex.delta # <<>> THEN Append2(ex.ws.transcript, ex.delta)
                 ELSE ex.ws.transcript) = <<>>
    THEN [StreamReply([StreamClear(ex.ws) EXCEPT !.last_confidence = 0],
                      0, <<>>, 0, ran, window)
            EXCEPT !.handed = IF ran THEN ex.ws.data ELSE <<>>]
    ELSE IF ~o.malloc
    THEN StreamReply([ex.ws EXCEPT !.transcript =
                          IF ex.delta # <<>> THEN Append2(@, ex.delta) ELSE @],
                     -3, <<>>, ex.ws.last_confidence, ran, window)
    ELSE [StreamReply(StreamClear(ex.ws), 1,
                      TrimSpace(IF ex.delta # <<>> THEN Append2(ex.ws.transcript, ex.delta)
                                ELSE ex.ws.transcript),
                      ex.ws.last_confidence, ran, window)
            EXCEPT !.handed = IF ran THEN ex.ws.data ELSE <<>>]

FlushAfterLastInference(inf, o, window) ==
    IF inf.rc # 0 THEN StreamReply(inf.ws, -2, <<>>, 0, TRUE, window)
    ELSE FlushFinish(extract_new_text([inf.ws EXCEPT !.last_window = inf.text,
                                                     !.last_confidence = inf.conf]),
                     o, TRUE, window)

FlushWindow(ws, o) ==
    FlushAfterLastInference(
        run_inference(
            [ws EXCEPT !.pcmf32 = ws.pcmf32_new + n_samples_take(ws, ws.pcmf32_new),
                       !.pcmf32_new = 0,
                       !.pcmf32_old = Min(ws.n_samples_keep,
                                          ws.pcmf32_new + n_samples_take(ws, ws.pcmf32_new)),
                       !.data = WindowData(ws),
                       !.new_data = <<>>,
                       !.old_data = LastSamples(WindowData(ws),
                                        Min(ws.n_samples_keep,
                                            ws.pcmf32_new + n_samples_take(ws, ws.pcmf32_new)))],
            o),
        o, ws.pcmf32_new + n_samples_take(ws, ws.pcmf32_new))

whisper_stream_flush(ws, o) ==
    IF ws.use_vad
    THEN IF ws.pcmf32_vad # 0 THEN transcribe_vad_buffer(ws, o)
         ELSE StreamReply(ws, 0, <<>>, 0, FALSE, 0)
    ELSE IF ws.pcmf32_new # 0 THEN FlushWindow(ws, o)
    ELSE FlushFinish(extract_new_text(ws), o, FALSE, 0)

(***************************************************************************)
(* The Engine interface: dispatch on the implementation plugged in.        *)
(***************************************************************************)
TranscribeSegment(e, ctx, audio, opts, out) ==
    IF e.kind = "stub" THEN StubTranscribeSegment(e, audio, opts)
    ELSE IF e.kind = "legacy" THEN LegacyTranscribeSegment(e, ctx, audio, opts, out)
    ELSE NativeTranscribeSegment(e, ctx, audio, opts, out)

Flush(e, ctx, opts, out) ==
    IF e.kind = "stub" THEN StubFlush(e, opts)
    ELSE IF e.kind = "legacy" THEN LegacyFlush(e, ctx, opts, out)
    ELSE NativeFlush(e, ctx, opts, out)

Close(e) ==
    IF e.kind = "stub" THEN e
    ELSE IF e.kind = "legacy" THEN LegacyClose(e)
    ELSE NativeClose(e)

(***************************************************************************)
(* State.                                                                  *)
(*   eng     the engine the process created (shared by every stream)       *)
(*   closed  whether Close has been called on it                           *)
(*   calls   number of direct engine calls made so far (bounded)           *)
(*   fed     bytes of non-empty audio passed to TranscribeSegment since    *)
(*           the previous Flush (history, kept apart from the engine)      *)
(*   last    record of the most recent direct engine call                  *)
(*   prev    summary of the call before it                                 *)
(*   cfg     the Server's configuration (Language, ModelVariant)           *)
(*   streams per stream: the locals of its StreamTranscription call, the   *)
(*           state of its context, the transcripts sent on it and the      *)
(*           value the call returned                                       *)
(*   emitted the texts of the partial results emitted since the flush      *)
(*           before the most recent call (history)                         *)
(*   ws      the C++ streaming context (whisper_stream)                    *)
(*   slast   record of the most recent call on ws                          *)
(***************************************************************************)
VARIABLES eng, closed, calls, fed, last, prev, cfg, streams, emitted, ws, slast, proc

engVars == <<eng, closed, calls, fed, last, prev>>
srvVars == <<cfg, streams>>
strVars == <<ws, slast>>
vars == <<eng, closed, calls, fed, last, prev, cfg, streams, emitted, ws, slast, proc>>

(***************************************************************************)
(* Inputs.                                                                 *)
(***************************************************************************)
Variants == {"small"}
OversizedAudio == maxAudioBytes + minWhisperBytes
AudioSizes == {0, 4, minWhisperBytes}
WindowAudioSizes == {minWhisperBytes, OversizedAudio}
Langs == {AUTO, <<" ", "E", "N">>}
Texts == {<<"a">>, <<"a", " ", "b">>, <<" ", "b">>}
Confs == {90}
TokenLists == {<<1, 2>>}
CtxStates == {"live"} \cup CtxErrs

OkOutcomes ==
    {[kind |-> "ok", nseg |-> 0, text |-> <<>>, conf |-> 0, tokens |-> <<>>, cerr |-> NoErr]}
    \cup {[kind |-> "ok", nseg |-> 1, text |-> t, conf |-> c, tokens |-> k, cerr |-> NoErr] :
            t \in Texts, c \in Confs, k \in TokenLists}

BadOutcomes ==
    {[kind |-> k, nseg |-> 0, text |-> <<>>, conf |-> 0, tokens |-> <<>>, cerr |-> ce] :
        k \in {"early", "abort"}, ce \in CtxErrs}
    \cup {[kind |-> k, nseg |-> 0, text |-> <<>>, conf |-> 0, tokens |-> <<>>, cerr |-> NoErr] :
            k \in {"fail", "nostate"}}

Outcomes == OkOutcomes \cup BadOutcomes

\* The engines never read Options.Final: one call in two carries it.
OptionsSet ==
    {[Language |-> AUTO, Final |-> FALSE], [Language |-> <<" ", "E", "N">>, Final |-> TRUE]}

NoCall ==
    [op |-> "none", ctx |-> "live", audio |-> 0, final |-> FALSE, out |-> "none",
     results |-> <<>>, err |-> NoErr, ran |-> FALSE, fed |-> 0, same |-> TRUE,
     lang |-> <<>>, prevLang |-> <<>>, at |-> 0]

\* `at` is the ordinal of the call among the calls counted in `calls`.
CallRecord(op, ctx, audio, opts, out, r, e, f) ==
    [op |-> op, ctx |-> ctx, audio |-> audio, final |-> opts.Final,
     out |-> IF r.ran \/ out.kind \in {"early", "nostate"} THEN out.kind ELSE "none",
     results |-> r.results, err |-> r.err, ran |-> r.ran, fed |-> f, same |-> (r.eng = e),
     lang |-> opts.Language, prevLang |-> e.language, at |-> calls + 1]

Summary(c) ==
    [op |-> c.op, audio |-> c.audio, out |-> c.out, results |-> c.results, err |-> c.err]

(***************************************************************************)
(* Inputs and call records of the C++ streaming context.                   *)
(***************************************************************************)
StreamConfigs ==
    {[use_vad |-> FALSE, keep_context |-> k, step_ms |-> 3000, length_ms |-> 10000,
      keep_ms |-> 200] : k \in BOOLEAN}
    \cup {[use_vad |-> TRUE, keep_context |-> FALSE, step_ms |-> 0, length_ms |-> 10000,
           keep_ms |-> 200]}

SampleCounts == {0, 16000, 48000, 200000}
StreamTokenLists == {<<>>, <<1>>, <<1, 2>>, <<2, 3, 9>>, <<1, 1, 1, 1, 1, 1, 1, 1>>}

StreamOutcomes ==
    {[ok |-> FALSE, tokens |-> <<>>, conf |-> 0, malloc |-> TRUE]}
    \cup {[ok |-> TRUE, tokens |-> t, conf |-> c, malloc |-> m] :
            t \in StreamTokenLists, c \in Confs, m \in BOOLEAN}

NoStreamCall ==
    [op |-> "none", n |-> 0, rc |-> 0, text |-> <<>>, conf |-> 0, ran |-> FALSE,
     window |-> 0, preNew |-> 0, preOld |-> 0, preTranscript |-> <<>>, same |-> TRUE,
     at |-> 0, handed |-> <<>>]

StreamCall(op, n, r, w) ==
    [op |-> op, n |-> n, rc |-> r.rc, text |-> r.text, conf |-> r.conf, ran |-> r.ran,
     window |-> r.window, preNew |-> w.pcmf32_new, preOld |-> w.pcmf32_old,
     preTranscript |-> w.transcript, same |-> (r.ws = w), at |-> calls + 1,
     handed |-> r.handed]

\* No adapter process: the engine or the dispatcher is used on its own.
NoProcess == [pc |-> "none"]

StreamIdle ==
    /\ proc = NoProcess
    /\ emitted = <<>>
    /\ ws = whisper_stream_create(CHOOSE c \in StreamConfigs : ~c.use_vad /\ c.keep_context)
    /\ slast = NoStreamCall

EmittedBase == IF last.op = "flush" THEN <<>> ELSE emitted

ResultTexts(results) == [i \in 1..Len(results) |-> results[i].Text]

(***************************************************************************)
(* Session dispatcher: Server.StreamTranscription.                         *)
(***************************************************************************)
Streams == {"A", "B"}
SeqNos == {1, 2}
PL == <<"p", "l">>
CfgLanguages == {CLIENT, PL}
Metas == {<<>>, <<" ", "e", "n", " ">>}
LangCfgLanguages == {CLIENT, AUTO, PL}
LangMetas == {<<>>, <<" ">>, <<" ", "e", "n", " ">>}
SrvAudioSizes == {0, 4, minWhisperBytes}

Requests ==
    {[hasSeg |-> FALSE, seq |-> 0, audio |-> 0, lastFlag |-> FALSE, flush |-> f, meta |-> m] :
        f \in BOOLEAN, m \in Metas}
    \cup {[hasSeg |-> TRUE, seq |-> q, audio |-> a, lastFlag |-> l, flush |-> f, meta |-> m] :
            q \in SeqNos, a \in SrvAudioSizes, l \in BOOLEAN, f \in BOOLEAN, m \in Metas}

\* The requests that differ in their metadata only: with or without one
\* frame of audio, with or without flush.
LangRequests ==
    {[hasSeg |-> a > 0, seq |-> IF a > 0 THEN 1 ELSE 0, audio |-> a, lastFlag |-> FALSE,
      flush |-> f, meta |-> m] :
        a \in {0, minWhisperBytes}, f \in BOOLEAN, m \in LangMetas}

\* The transcriber outcomes that can make a difference to a call: none
\* when the engine is the stub or the call is not made.
NoOutcome ==
    [kind |-> "ok", nseg |-> 0, text |-> <<>>, conf |-> 0, tokens |-> <<>>, cerr |-> NoErr]

OutcomesFor(e, needed, outs) ==
    IF needed /\ e.kind # "stub" THEN outs ELSE {NoOutcome}

SrvOutcomes ==
    {o \in Outcomes : \/ o.kind = "fail"
                      \/ o.kind = "abort" /\ o.cerr = "Canceled"
                      \/ o.kind = "ok" /\ o.text \in {<<>>, <<"a">>, <<"a", " ", "b">>}}

\* resolveLanguage that lets the metadata win over every configuration.
resolveLanguageMetadataFirst(configLang, metadata) ==
    IF TrimSpace(metadata) # <<>> THEN TrimSpace(metadata)
    ELSE IF configLang # CLIENT THEN configLang
    ELSE AUTO

resolveLanguage(configLang, metadata) ==
    IF configLang # CLIENT THEN configLang
    ELSE IF TrimSpace(metadata) # <<>> THEN TrimSpace(metadata)
    ELSE AUTO

\* Telemetry. `m` is the StreamMetrics of one stream together with what the
\* stream has added to the atomic counters of the Recorder: the Recorder's
\* totals are the sums of these over the streams (Snapshot). `handle` is
\* FALSE while streamMetrics is nil.
NoMetrics ==
    [handle |-> FALSE, closed |-> FALSE, started |-> 0, active |-> 0, segments |-> 0,
     bytes |-> 0, transcripts |-> 0, finals |-> 0, flushes |-> 0, finishCalls |-> 0]

StartStream(m) ==
    [m EXCEPT !.handle = TRUE, !.closed = FALSE, !.started = @ + 1, !.active = @ + 1]

RecordSegment(m, size) ==
    IF ~m.handle \/ size <= 0 THEN m
    ELSE [m EXCEPT !.segments = @ + 1, !.bytes = @ + size]

RecordTranscript(m, final) ==
    IF ~m.handle THEN m
    ELSE [m EXCEPT !.transcripts = @ + 1, !.finals = IF final THEN @ + 1 ELSE @]

RECURSIVE RecordTranscripts(_, _, _)
RecordTranscripts(m, results, n) ==
    IF n = 0 THEN m
    ELSE RecordTranscript(RecordTranscripts(m, results, n - 1), results[n].Final)

RecordFlush(m) == IF ~m.handle THEN m ELSE [m EXCEPT !.flushes = @ + 1]

\* Finish without the compare-and-swap of `closed`.
FinishEveryTime(m) ==
    IF ~m.handle THEN m
    ELSE [m EXCEPT !.closed = TRUE, !.active = @ - 1, !.finishCalls = @ + 1]

Finish(m) ==
    IF ~m.handle THEN m
    ELSE IF m.closed THEN [m EXCEPT !.finishCalls = @ + 1]
    ELSE [m EXCEPT !.closed = TRUE, !.active = @ - 1, !.finishCalls = @ + 1]

\* A return of StreamTranscription: the deferred function finishes the metrics.
Return(st, err) == [st EXCEPT !.ret = err, !.m = Finish(@)]

NewStream ==
    [ret |-> "running", initLogged |-> FALSE, lastSequence |-> 0, streamLang |-> <<>>,
     ctx |-> "live", sent |-> <<>>, reqs |-> 0, accepted |-> FALSE, own |-> 0,
     firstMeta |-> <<>>, resolutions |-> 0, langs |-> {}, metaChanged |-> FALSE,
     engCalls |-> 0, engErr |-> NoErr, atErr |-> [sent |-> 0, reqs |-> 0, calls |-> 0],
     peerClose |-> FALSE, closeFlushed |-> FALSE, closeCtx |-> "none", m |-> NoMetrics]

\* The stream after one more engine call that was given `lang`.
EngineCalled(st, lang) == [st EXCEPT !.langs = @ \cup {lang}, !.engCalls = @ + 1]

\* The stream at the moment the engine returned `err`.
EngineFailed(st, err) ==
    [st EXCEPT !.engErr = err,
               !.atErr = [sent |-> Len(st.sent), reqs |-> st.reqs, calls |-> st.engCalls]]

\* sendResults: `sendOk` tells whether stream.Send succeeds; `origin` and
\* `lastSeen` record, for each transcript, what produced it and the last
\* segment sequence seen on the stream at that moment.
Transcripts(sequence, results, lang, origin, lastSeen, reqNo) ==
    [i \in 1..Len(results) |->
        [Sequence |-> sequence, Text |-> results[i].Text,
         Confidence |-> results[i].Confidence, Final |-> results[i].Final,
         Language |-> lang, origin |-> origin, lastSeen |-> lastSeen, reqNo |-> reqNo]]

sendResults(st, sequence, results, lang, origin, sendOk) ==
    IF results = <<>> THEN [st |-> st, err |-> NoErr]
    ELSE IF sendOk
    THEN [st |-> [st EXCEPT !.sent = @ \o Transcripts(sequence, results, lang, origin, st.lastSequence,
                                                     st.reqs),
                            !.m = RecordTranscripts(@, results, Len(results))],
          err |-> NoErr]
    ELSE [st |-> [st EXCEPT !.m = RecordTranscript(@, results[1].Final)], err |-> "Transport"]

\* emitFlush: [st, eng, err, ran].
emitFlush(st, e, ctx, sequence, lang, origin, out, sendOk) ==
    LET r == Flush(e, ctx, [Language |-> lang, Final |-> TRUE], out)
        st1 == [EngineCalled(st, lang) EXCEPT !.m = RecordFlush(@)]
    IN  IF r.err # NoErr
        THEN [st |-> EngineFailed(st1, r.err), eng |-> r.eng, err |-> r.err, ran |-> r.ran]
        ELSE LET sr == sendResults(st1, sequence, r.results, lang, origin, sendOk)
             IN  [st |-> sr.st, eng |-> r.eng, err |-> sr.err, ran |-> r.ran]

\* The context after an engine call: cancelled when the transcriber was
\* interrupted by the cancellation of the stream's context.
CtxAfter(ctx, ran, out) ==
    IF ctx = "live" /\ ran /\ out.kind = "abort" THEN out.cerr ELSE ctx

\* The end of an iteration when the loop goes on after a flush that worked.
HandleFlushGoesOn(s, st, e, req, sequence, out2, sendOk2) ==
    IF ~req.flush
    THEN /\ streams' = [streams EXCEPT ![s] = st]
         /\ eng' = e
    ELSE LET f == emitFlush(st, e, st.ctx, sequence, st.streamLang, "flush", out2, sendOk2)
         IN  /\ streams' = [streams EXCEPT ![s] =
                              [f.st EXCEPT !.ret = IF f.err = NoErr THEN "running" ELSE f.err,
                                           !.ctx = CtxAfter(@, f.ran, out2)]]
             /\ eng' = f.eng

\* The end of an iteration: the flush of a request with flush = true.
HandleFlush(s, st, e, req, sequence, out2, sendOk2) ==
    IF ~req.flush
    THEN /\ streams' = [streams EXCEPT ![s] = st]
         /\ eng' = e
    ELSE LET f == emitFlush(st, e, st.ctx, sequence, st.streamLang, "flush", out2, sendOk2)
         IN  /\ streams' = [streams EXCEPT ![s] =
                              Return([f.st EXCEPT !.ctx = CtxAfter(@, f.ran, out2)], f.err)]
             /\ eng' = f.eng

\* The middle of an iteration when an error of TranscribeSegment is logged
\* and the loop goes on.
HandleResultsGoesOn(s, st, req, sequence, r1, out1, out2, sendOk1, sendOk2) ==
    LET hasAudio == req.hasSeg /\ req.audio > 0
        st3 == [st EXCEPT !.ctx = CtxAfter(@, r1.ran, out1),
                          !.accepted = @ \/ (hasAudio /\ r1.err = NoErr),
                          !.own = IF hasAudio /\ r1.err = NoErr THEN @ + req.audio ELSE @]
    IN  IF r1.err # NoErr
        THEN HandleFlush(s, EngineFailed(st3, r1.err), r1.eng, req, sequence, out2, sendOk2)
        ELSE LET sr == sendResults(st3, sequence, r1.results, st3.streamLang,
                                   "segment", sendOk1)
             IN  IF sr.err # NoErr
                 THEN /\ streams' = [streams EXCEPT ![s] = [sr.st EXCEPT !.ret = sr.err]]
                      /\ eng' = r1.eng
                 ELSE HandleFlush(s, sr.st, r1.eng, req, sequence, out2, sendOk2)

\* The middle of an iteration: the results of TranscribeSegment are sent.
HandleResults(s, st, req, sequence, r1, out1, out2, sendOk1, sendOk2) ==
    LET hasAudio == req.hasSeg /\ req.audio > 0
        st3 == [st EXCEPT !.ctx = CtxAfter(@, r1.ran, out1),
                          !.accepted = @ \/ (hasAudio /\ r1.err = NoErr),
                          !.own = IF hasAudio /\ r1.err = NoErr THEN @ + req.audio ELSE @]
    IN  IF r1.err # NoErr
        THEN /\ streams' = [streams EXCEPT ![s] = Return(EngineFailed(st3, r1.err), r1.err)]
             /\ eng' = r1.eng
        ELSE LET sr == sendResults(st3, sequence, r1.results, st3.streamLang,
                                   "segment", sendOk1)
             IN  IF sr.err # NoErr
                 THEN /\ streams' = [streams EXCEPT ![s] = Return(sr.st, sr.err)]
                      /\ eng' = r1.eng
                 ELSE HandleFlush(s, sr.st, r1.eng, req, sequence, out2, sendOk2)

\* The options TranscribeSegment is called with.
SegmentOptions(st, req) ==
    [Language |-> st.streamLang, Final |-> req.flush \/ (req.hasSeg /\ req.lastFlag)]

\* The start of an iteration, after the stream was opened on its first request.
HandleSegment(s, st, req, out1, out2, sendOk1, sendOk2) ==
    IF req.hasSeg /\ req.audio > 0
    THEN HandleResults(s, [EngineCalled(st, SegmentOptions(st, req).Language)
                              EXCEPT !.m = RecordSegment(@, req.audio)],
             req, req.seq,
             TranscribeSegment(eng, st.ctx, req.audio, SegmentOptions(st, req), out1),
             out1, out2, sendOk1, sendOk2)
    ELSE HandleResults(s, st, req, IF req.hasSeg THEN req.seq ELSE 0,
             Reply(eng, <<>>, NoErr, FALSE), out1, out2, sendOk1, sendOk2)

\* One iteration of the receive loop on a request (Recv returned no error).
\* The stream is opened on every request, not only on the first.
OpenStreamEveryRequest(st, req) ==
    [st EXCEPT !.streamLang = resolveLanguage(cfg.Language, req.meta),
               !.firstMeta = IF st.initLogged THEN @ ELSE req.meta,
               !.resolutions = @ + 1,
               !.initLogged = TRUE]

\* The `if !initLogged` block: the language of the stream is resolved from
\* the request that opens it.
OpenStream(st, req) ==
    IF st.initLogged THEN st
    ELSE [st EXCEPT !.streamLang = resolveLanguage(cfg.Language, req.meta),
                    !.firstMeta = req.meta,
                    !.resolutions = @ + 1,
                    !.initLogged = TRUE,
                    !.m = StartStream(@)]

HandleRequest(s, req, out1, out2, sendOk1, sendOk2) ==
    HandleSegment(s,
        [OpenStream(streams[s], req) EXCEPT
            !.metaChanged = @ \/ (streams[s].initLogged /\ req.meta # streams[s].firstMeta),
            !.lastSequence = IF req.hasSeg THEN req.seq ELSE @,
            !.reqs = @ + 1],
        req, out1, out2, sendOk1, sendOk2)

RecvRequest(s, reqSet, maxReqs) ==
    /\ streams[s].ret = "running"
    /\ streams[s].ctx = "live"
    /\ streams[s].reqs < maxReqs
    /\ \E req \in reqSet :
         \E out1 \in OutcomesFor(eng, req.hasSeg /\ req.audio > 0, SrvOutcomes),
               out2 \in OutcomesFor(eng, req.flush, SrvOutcomes),
               sendOk1 \in IF req.hasSeg /\ req.audio > 0 THEN BOOLEAN ELSE {TRUE},
               sendOk2 \in IF req.flush THEN BOOLEAN ELSE {TRUE} :
              HandleRequest(s, req, out1, out2, sendOk1, sendOk2)
    /\ UNCHANGED <<closed, calls, fed, last, prev, cfg, emitted, strVars, proc>>

\* Peer close: the terminal flush runs only when the stream was opened
\* (streamMetrics != nil, set together with initLogged).
PeerClose(s, flushCtx, out, sendOk) ==
    LET st == streams[s]
    IN  IF st.initLogged
        THEN LET f == emitFlush(st, eng, flushCtx, st.lastSequence, st.streamLang,
                                "close", out, sendOk)
             IN  /\ streams' = [streams EXCEPT ![s] =
                                  Return([f.st EXCEPT !.peerClose = TRUE, !.closeFlushed = TRUE,
                                                      !.closeCtx = flushCtx], f.err)]
                 /\ eng' = f.eng
        ELSE /\ streams' = [streams EXCEPT ![s] = Return([st EXCEPT !.peerClose = TRUE], NoErr)]
             /\ eng' = eng

\* Recv reports io.EOF: the flush runs with the stream's own context.
RecvEOF(s) ==
    /\ streams[s].ret = "running"
    /\ streams[s].ctx = "live"
    /\ \E out \in OutcomesFor(eng, streams[s].initLogged, SrvOutcomes), sendOk \in BOOLEAN :
         PeerClose(s, streams[s].ctx, out, sendOk)
    /\ UNCHANGED <<closed, calls, fed, last, prev, cfg, emitted, strVars, proc>>

\* Recv reports context.Canceled: the flush runs with a fresh context that
\* expires after 2 s (an interrupted transcriber then reports DeadlineExceeded).
RecvCanceled(s) ==
    /\ streams[s].ret = "running"
    /\ streams[s].ctx = "Canceled"
    /\ \E out \in OutcomesFor(eng, streams[s].initLogged, SrvOutcomes), sendOk \in BOOLEAN :
         PeerClose(s, "live",
                   IF out.kind = "abort" THEN [out EXCEPT !.cerr = "DeadlineExceeded"] ELSE out,
                   sendOk)
    /\ UNCHANGED <<closed, calls, fed, last, prev, cfg, emitted, strVars, proc>>

\* Recv reports any other error.
RecvError(s) ==
    /\ streams[s].ret = "running"
    /\ streams' = [streams EXCEPT ![s] = Return(@, "Transport")]
    /\ UNCHANGED <<eng, closed, calls, fed, last, prev, cfg, emitted, strVars, proc>>

\* The peer cancels the stream: its context is done from now on.
CancelCtx(s) ==
    /\ streams[s].ret = "running"
    /\ streams[s].ctx = "live"
    /\ streams' = [streams EXCEPT ![s] = [@ EXCEPT !.ctx = "Canceled"]]
    /\ UNCHANGED <<eng, closed, calls, fed, last, prev, cfg, emitted, strVars, proc>>

SrvInitOf(languages) ==
    /\ eng \in {NewStubEngine(v) : v \in Variants} \cup {NewNativeEngine(v) : v \in Variants}
    /\ closed = FALSE
    /\ calls = 0
    /\ fed = 0
    /\ last = [NoCall EXCEPT !.op = "new"]
    /\ prev = Summary(NoCall)
    /\ cfg \in {[Language |-> l, ModelVariant |-> eng.modelVariant] : l \in languages}
    /\ streams = [s \in Streams |-> NewStream]
    /\ StreamIdle

SrvInit == SrvInitOf(CfgLanguages)

\* One stream served alone, with every form of request.
Next ==
    \/ RecvRequest("A", Requests, MaxReqs)
    \/ RecvEOF("A")
    \/ RecvCanceled("A")
    \/ RecvError("A")
    \/ CancelCtx("A")

Spec == SrvInit /\ [][Next]_vars

\* One stream served alone under every kind of configured language, with
\* requests that carry every kind of metadata.
LangInit == SrvInitOf(LangCfgLanguages)

NextLang ==
    \/ RecvRequest("A", LangRequests, MaxReqs)
    \/ RecvEOF("A")
    \/ RecvCanceled("A")
    \/ RecvError("A")
    \/ CancelCtx("A")

SpecLang == LangInit /\ [][NextLang]_vars

\* Two streams served concurrently by the same Server (one goroutine each,
\* interleaved between loop iterations), with the plain forms of request.
SharedRequests ==
    {req \in Requests : /\ req.meta = <<>>
                        /\ ~req.lastFlag
                        /\ req.hasSeg => (req.seq = 1 /\ req.audio > 0)}

SharedInit ==
    /\ SrvInit
    /\ cfg.Language = PL

NextShared ==
    \E s \in Streams :
        \/ RecvRequest(s, SharedRequests, MaxSharedReqs)
        \/ RecvEOF(s)
        \/ RecvCanceled(s)
        \/ RecvError(s)
        \/ CancelCtx(s)

SpecShared == SharedInit /\ [][NextShared]_vars

(***************************************************************************)
(* Direct use of one engine: the calls of the Engine interface in any      *)
(* order, with any context state and any transcriber outcome.              *)
(***************************************************************************)
EngInit ==
    /\ eng \in {NewStubEngine(v) : v \in Variants} \cup {NewNativeEngine(v) : v \in Variants}
    /\ closed = FALSE
    /\ calls = 0
    /\ fed = 0
    /\ last = [NoCall EXCEPT !.op = "new"]
    /\ prev = Summary(NoCall)
    /\ cfg = [Language |-> AUTO, ModelVariant |-> eng.modelVariant]
    /\ streams = [s \in Streams |-> NewStream]
    /\ StreamIdle

EngTranscribeOf(ctxs, sizes, options, outs) ==
    /\ ~closed /\ calls < MaxCalls
    /\ \E ctx \in ctxs, audio \in sizes, opts \in options :
       \E out \in OutcomesFor(eng, ctx = "live" /\ audio > 0, outs) :
         LET r == TranscribeSegment(eng, ctx, audio, opts, out)
         IN  /\ eng' = r.eng
             /\ last' = CallRecord("transcribe", ctx, audio, opts, out, r, eng, fed)
             /\ fed' = fed + audio
             /\ emitted' = EmittedBase \o ResultTexts(r.results)
    /\ prev' = Summary(last)
    /\ calls' = calls + 1
    /\ UNCHANGED <<closed, srvVars, strVars, proc>>

EngTranscribe == EngTranscribeOf(CtxStates, AudioSizes, OptionsSet, Outcomes)

EngFlushOf(ctxs, options, outs) ==
    /\ ~closed /\ calls < MaxCalls
    /\ \E ctx \in ctxs, opts \in options :
       \E out \in OutcomesFor(eng, ctx = "live", outs) :
         LET r == Flush(eng, ctx, opts, out)
         IN  /\ eng' = r.eng
             /\ last' = CallRecord("flush", ctx, 0, opts, out, r, eng, fed)
    /\ fed' = 0
    /\ emitted' = EmittedBase
    /\ prev' = Summary(last)
    /\ calls' = calls + 1
    /\ UNCHANGED <<closed, srvVars, strVars, proc>>

EngFlush == EngFlushOf(CtxStates, OptionsSet, Outcomes)

EngSetDefaultLanguageOf(langs) ==
    /\ ~closed /\ calls < MaxCalls
    /\ \E lang \in langs :
         /\ eng' = SetDefaultLanguage(eng, lang)
         /\ last' = [NoCall EXCEPT !.op = "setlang", !.fed = fed]
    /\ prev' = Summary(last)
    /\ calls' = calls + 1
    /\ emitted' = EmittedBase
    /\ UNCHANGED <<closed, fed, srvVars, strVars, proc>>

EngSetDefaultLanguage == EngSetDefaultLanguageOf(Langs)

EngClose ==
    /\ ~closed
    /\ eng' = Close(eng)
    /\ closed' = TRUE
    /\ last' = [NoCall EXCEPT !.op = "close", !.fed = fed]
    /\ prev' = Summary(last)
    /\ emitted' = EmittedBase
    /\ UNCHANGED <<calls, fed, srvVars, strVars, proc>>

EngNext == EngTranscribe \/ EngFlush \/ EngSetDefaultLanguage \/ EngClose

SpecEngine == EngInit /\ [][EngNext]_vars

\* The same calls with segments of one frame and of more than the largest
\* window the native engine keeps.
WindowCtxStates == {"live", "Canceled"}
WindowOptions == {[Language |-> AUTO, Final |-> FALSE]}
WindowOutcomes ==
    {o \in Outcomes : \/ o.kind \in {"ok", "fail"}
                      \/ o.kind = "abort" /\ o.cerr = "Canceled"}

WinTranscribe ==
    EngTranscribeOf(WindowCtxStates, WindowAudioSizes, WindowOptions, WindowOutcomes)

WinFlush == EngFlushOf(WindowCtxStates, WindowOptions, WindowOutcomes)

WindowNext == WinTranscribe \/ WinFlush \/ EngClose

SpecWindow == EngInit /\ [][WindowNext]_vars

\* The same calls with a working context and full frames, where the language
\* of the call, of the previous call and of the engine's default all vary.
HintLangs == {<<>>, AUTO, <<" ", "E", "N">>}
HintDefaults == {AUTO, <<"P", "L", " ">>}
HintOutcomes == {o \in Outcomes : o.kind \in {"ok", "fail"}}

HintTranscribe ==
    EngTranscribeOf({"live"}, {minWhisperBytes}, [Language : HintLangs, Final : {FALSE}],
                    HintOutcomes)

HintSetDefaultLanguage == EngSetDefaultLanguageOf(HintDefaults)

HintFlush == EngFlushOf({"live"}, [Language : HintLangs, Final : {TRUE}], HintOutcomes)

HintNext == HintTranscribe \/ HintSetDefaultLanguage \/ HintFlush \/ EngClose

SpecHint == EngInit /\ [][HintNext]_vars

(***************************************************************************)
(* Direct use of the engine of internal/whisper.                           *)
(***************************************************************************)
LegacyAudioSizes == {0, 4, 6 * 1024 * 1024}

LegacyInit ==
    /\ eng \in {NewLegacyEngine(v) : v \in Variants}
    /\ closed = FALSE
    /\ calls = 0
    /\ fed = 0
    /\ last = [NoCall EXCEPT !.op = "new"]
    /\ prev = Summary(NoCall)
    /\ cfg = [Language |-> AUTO, ModelVariant |-> eng.modelVariant]
    /\ streams = [s \in Streams |-> NewStream]
    /\ StreamIdle

LegTranscribe ==
    /\ ~closed /\ calls < MaxCalls
    /\ \E ctx \in CtxStates, audio \in LegacyAudioSizes, opts \in OptionsSet :
       \E out \in OutcomesFor(eng, ctx = "live" /\ audio > 0, Outcomes) :
         LET r == TranscribeSegment(eng, ctx, audio, opts, out)
         IN  /\ eng' = r.eng
             /\ last' = CallRecord("transcribe", ctx, audio, opts, out, r, eng, eng.audio)
    /\ fed' = eng'.audio
    /\ prev' = Summary(last)
    /\ calls' = calls + 1
    /\ UNCHANGED <<closed, srvVars, emitted, strVars, proc>>

LegFlush ==
    /\ ~closed /\ calls < MaxCalls
    /\ \E ctx \in CtxStates, opts \in OptionsSet :
       \E out \in OutcomesFor(eng, ctx = "live", Outcomes) :
         LET r == Flush(eng, ctx, opts, out)
         IN  /\ eng' = r.eng
             /\ last' = CallRecord("flush", ctx, 0, opts, out, r, eng, eng.audio)
    /\ fed' = eng'.audio
    /\ prev' = Summary(last)
    /\ calls' = calls + 1
    /\ UNCHANGED <<closed, srvVars, emitted, strVars, proc>>

LegClose ==
    /\ ~closed
    /\ eng' = Close(eng)
    /\ closed' = TRUE
    /\ last' = [NoCall EXCEPT !.op = "close", !.fed = eng.audio]
    /\ fed' = 0
    /\ prev' = Summary(last)
    /\ UNCHANGED <<calls, srvVars, emitted, strVars, proc>>

LegacyNext == LegTranscribe \/ LegFlush \/ LegClose

SpecLegacy == LegacyInit /\ [][LegacyNext]_vars

(***************************************************************************)
(* Direct use of the C++ streaming context.                                *)
(***************************************************************************)
StreamInit ==
    /\ eng \in {NewNativeEngine(v) : v \in Variants}
    /\ closed = FALSE
    /\ calls = 0
    /\ fed = 0
    /\ last = NoCall
    /\ prev = Summary(NoCall)
    /\ cfg = [Language |-> AUTO, ModelVariant |-> eng.modelVariant]
    /\ streams = [s \in Streams |-> NewStream]
    /\ emitted = <<>>
    /\ ws \in {whisper_stream_create(c) : c \in StreamConfigs}
    /\ slast = NoStreamCall
    /\ proc = NoProcess

StreamEmittedBase == IF slast.op = "flush" THEN <<>> ELSE emitted

StrProcessOf(counts, outs) ==
    /\ calls < MaxCalls
    /\ \E n \in counts, o \in outs,
          silence \in IF ws.use_vad THEN BOOLEAN ELSE {FALSE} :
         LET r == whisper_stream_process(ws, n, o, silence)
         IN  /\ ws' = r.ws
             /\ slast' = StreamCall("process", n, r, ws)
             /\ emitted' = IF r.rc = 1 THEN Append(StreamEmittedBase, r.text)
                           ELSE StreamEmittedBase
    /\ calls' = calls + 1
    /\ UNCHANGED <<eng, closed, fed, last, prev, srvVars, proc>>

StrProcess == StrProcessOf(SampleCounts, StreamOutcomes)

StrFlushOf(outs) ==
    /\ calls < MaxCalls
    /\ \E o \in outs :
         LET r == whisper_stream_flush(ws, o)
         IN  /\ ws' = r.ws
             /\ slast' = StreamCall("flush", 0, r, ws)
    /\ emitted' = StreamEmittedBase
    /\ calls' = calls + 1
    /\ UNCHANGED <<eng, closed, fed, last, prev, srvVars, proc>>

StrFlush == StrFlushOf(StreamOutcomes)

StreamNext == StrProcess \/ StrFlush

SpecStream == StreamInit /\ [][StreamNext]_vars

(***************************************************************************)
(* The C++ stream in VAD mode.                                             *)
(***************************************************************************)
VadInit ==
    /\ StreamInit
    /\ ws.use_vad

VadSampleCounts == {16000, 48000, 200000}

VadOutcomes == {o \in StreamOutcomes : o.ok => o.tokens \in {<<>>, <<1, 2>>}}

VadProcess == StrProcessOf(VadSampleCounts, VadOutcomes)

VadFlush == StrFlushOf(VadOutcomes)

VadNext == VadProcess \/ VadFlush

SpecVad == VadInit /\ [][VadNext]_vars

(***************************************************************************)
(* The C++ stream and the Go engine side by side, fed with audio below and *)
(* at their firing thresholds.                                             *)
(***************************************************************************)
FiringSampleCounts == {0, 16000, 48000, 100000, 200000}

FiringStreamOutcomes ==
    {o \in StreamOutcomes : o.malloc /\ (o.ok => o.tokens \in {<<>>, <<1, 2>>})}

FiringOutcomes ==
    {o \in Outcomes : o.kind = "fail" \/ (o.kind = "ok" /\ o.text = <<"a">>)}

FiringProcess == StrProcessOf(FiringSampleCounts, FiringStreamOutcomes)

FiringTranscribe == EngTranscribeOf(WindowCtxStates, AudioSizes, WindowOptions, FiringOutcomes)

FiringNext == FiringProcess \/ FiringTranscribe

SpecFiring == StreamInit /\ [][FiringNext]_vars

(***************************************************************************)
(* The C++ stream with windows that yield more tokens than the decoder     *)
(* context holds.                                                          *)
(***************************************************************************)
LongTokens == [i \in 1..(maxPromptTokens + 1) |-> 1 + (i % 3)]

PromptSampleCounts == {16000, 48000}

PromptOutcomes ==
    {[ok |-> FALSE, tokens |-> <<>>, conf |-> 0, malloc |-> TRUE]}
    \cup {[ok |-> TRUE, tokens |-> t, conf |-> c, malloc |-> TRUE] :
            t \in {<<>>, <<1, 2>>, <<2, 3, 9>>, LongTokens}, c \in Confs}

PromptProcess == StrProcessOf(PromptSampleCounts, PromptOutcomes)

PromptFlush == StrFlushOf(PromptOutcomes)

PromptNext == PromptProcess \/ PromptFlush

SpecPrompt == StreamInit /\ [][PromptNext]_vars

(***************************************************************************)
(* The token-level delta on its own: extract_new_text applied to a stream  *)
(* holding any pair of text-token lists of bounded length.                 *)
(***************************************************************************)
MaxTokens == 2

RECURSIVE TokenSeqs(_)
TokenSeqs(n) ==
    IF n = 0 THEN {<<>>}
    ELSE TokenSeqs(n - 1) \cup {Append(t, x) : t \in TokenSeqs(n - 1), x \in TextTokens}

PrefixInit ==
    /\ eng \in {NewNativeEngine(v) : v \in Variants}
    /\ closed = FALSE
    /\ calls = 0
    /\ fed = 0
    /\ last = NoCall
    /\ prev = Summary(NoCall)
    /\ cfg = [Language |-> AUTO, ModelVariant |-> "small"]
    /\ streams = [s \in Streams |-> NewStream]
    /\ emitted = <<>>
    /\ \E p \in TokenSeqs(MaxTokens), c \in TokenSeqs(MaxTokens) :
         ws = [whisper_stream_create(CHOOSE k \in StreamConfigs : ~k.use_vad /\ k.keep_context)
                 EXCEPT !.previous_text_tokens = p, !.current_text_tokens = c]
    /\ slast = NoStreamCall
    /\ proc = [pc |-> "tokens"]

ExtractNewText ==
    /\ proc.pc = "tokens"
    /\ ws' = extract_new_text(ws).ws
    /\ proc' = [pc |-> "extracted",
                previous |-> ws.previous_text_tokens,
                current |-> ws.current_text_tokens,
                new_start |-> find_common_prefix(ws.previous_text_tokens, ws.current_text_tokens),
                delta |-> extract_new_text(ws).delta]
    /\ UNCHANGED <<eng, closed, calls, fed, last, prev, cfg, streams, emitted, slast>>

PrefixNext == ExtractNewText

SpecPrefix == PrefixInit /\ [][PrefixNext]_vars

(***************************************************************************)
(* Telemetry: the shared dispatcher, and a holder of a finished stream's   *)
(* metrics that calls Finish again, as TestRecorderSnapshot does.          *)
(***************************************************************************)
\* Recorder.Snapshot: the loads of the Recorder's counters.
Snapshot ==
    [TotalStreams          |-> streams["A"].m.started + streams["B"].m.started,
     ActiveStreams         |-> streams["A"].m.active + streams["B"].m.active,
     TotalSegments         |-> streams["A"].m.segments + streams["B"].m.segments,
     TotalBytes            |-> streams["A"].m.bytes + streams["B"].m.bytes,
     TotalTranscripts      |-> streams["A"].m.transcripts + streams["B"].m.transcripts,
     TotalFinalTranscripts |-> streams["A"].m.finals + streams["B"].m.finals,
     TotalFlushes          |-> streams["A"].m.flushes + streams["B"].m.flushes]

FinishAgain(s) ==
    /\ streams[s].ret # "running"
    /\ streams[s].m.handle
    /\ streams[s].m.finishCalls = 1
    /\ streams' = [streams EXCEPT ![s].m = Finish(@)]
    /\ UNCHANGED <<eng, closed, calls, fed, last, prev, cfg, emitted, strVars, proc>>

\* One frame of audio per request, with or without flush; no client cancels.
TelemetryRequests == {req \in SharedRequests : req.hasSeg /\ req.audio = minWhisperBytes}

TelemetryNext ==
    \E s \in Streams :
        \/ RecvRequest(s, TelemetryRequests, MaxSharedReqs)
        \/ RecvEOF(s)
        \/ RecvError(s)
        \/ FinishAgain(s)

\* The native engine: the one whose calls can fail.
TelemetryInit ==
    /\ SharedInit
    /\ eng.kind = "native"

SpecTelemetry == TelemetryInit /\ [][TelemetryNext]_vars

(***************************************************************************)
(* The engine factory and the adapter process (cmd/adapter).               *)
(***************************************************************************)
MaxRpcs == 2

\* What the configuration, the model manager and the build make of one call
\* of the factory.
FactoryInputs ==
    [useStub : BOOLEAN, manager : BOOLEAN, pathSet : BOOLEAN, resolveOk : BOOLEAN,
     manifestEmpty : BOOLEAN, ensureOk : BOOLEAN, nativeAvailable : BOOLEAN,
     nativeInitOk : BOOLEAN]

NilEngine == [kind |-> "nil"]

Made(engine, path, err) == [engine |-> engine, path |-> path, err |-> err]

\* NewNativeEngine as the factory sees it: (engine, error).
NativeCtor(variant, in) ==
    IF in.nativeInitOk THEN [engine |-> NewNativeEngine(variant), err |-> NoErr]
    ELSE [engine |-> NilEngine, err |-> "NativeInitFailed"]

\* The factory that hands out whatever NewNativeEngine returned.
newEngineWithOptionsNoFallback(variant, in) ==
    IF in.useStub
    THEN IF in.manager /\ in.pathSet
         THEN IF ~in.resolveOk THEN Made(NewStubEngine(variant), "", "ResolveFailed")
              ELSE Made(NewStubEngine(variant), "resolved", NoErr)
         ELSE Made(NewStubEngine(variant), "", NoErr)
    ELSE IF ~in.manager THEN Made(NewStubEngine(variant), "", "NativeEngineUnavailable")
    ELSE IF in.manifestEmpty THEN Made(NewStubEngine(variant), "", "ManifestEmpty")
    ELSE IF ~in.ensureOk THEN Made(NewStubEngine(variant), "", "EnsureFailed")
    ELSE IF in.nativeAvailable
    THEN Made(NativeCtor(variant, in).engine, "ensured", NativeCtor(variant, in).err)
    ELSE Made(NewStubEngine(variant), "ensured", "NativeEngineUnavailable")

newEngineWithOptions(variant, in) ==
    IF in.useStub
    THEN IF in.manager /\ in.pathSet
         THEN IF ~in.resolveOk THEN Made(NewStubEngine(variant), "", "ResolveFailed")
              ELSE Made(NewStubEngine(variant), "resolved", NoErr)
         ELSE Made(NewStubEngine(variant), "", NoErr)
    ELSE IF ~in.manager THEN Made(NewStubEngine(variant), "", "NativeEngineUnavailable")
    ELSE IF in.manifestEmpty THEN Made(NewStubEngine(variant), "", "ManifestEmpty")
    ELSE IF ~in.ensureOk THEN Made(NewStubEngine(variant), "", "EnsureFailed")
    ELSE IF in.nativeAvailable
    THEN IF NativeCtor(variant, in).err # NoErr
         THEN Made(NewStubEngine(variant), "ensured", NativeCtor(variant, in).err)
         ELSE Made(NativeCtor(variant, in).engine, "ensured", NoErr)
    ELSE Made(NewStubEngine(variant), "ensured", "NativeEngineUnavailable")

\* New: a manifest that cannot be read leaves the options empty.
New(variant, in) == newEngineWithOptions(variant, in)

\* The factory called on its own, then the engine it returned used.
FactoryInit ==
    /\ eng = NilEngine
    /\ closed = TRUE
    /\ calls = 0
    /\ fed = 0
    /\ last = NoCall
    /\ prev = Summary(NoCall)
    /\ cfg = [Language |-> AUTO, ModelVariant |-> "small"]
    /\ streams = [s \in Streams |-> NewStream]
    /\ emitted = <<>>
    /\ ws = whisper_stream_create(CHOOSE c \in StreamConfigs : ~c.use_vad /\ c.keep_context)
    /\ slast = NoStreamCall
    /\ proc = [pc |-> "factory"]

FactoryNew ==
    /\ proc.pc = "factory"
    /\ \E in \in FactoryInputs :
         LET r == newEngineWithOptions(cfg.ModelVariant, in)
         IN  /\ eng' = r.engine
             /\ proc' = [pc |-> "made", in |-> in, path |-> r.path, err |-> r.err]
    /\ closed' = FALSE
    /\ last' = [NoCall EXCEPT !.op = "new"]
    /\ UNCHANGED <<calls, fed, prev, srvVars, emitted, strVars>>

\* The engine the factory returned takes a frame of audio and a flush.
FactoryTranscribe ==
    EngTranscribeOf({"live"}, {minWhisperBytes}, WindowOptions, HintOutcomes)

FactoryFlush == EngFlushOf({"live"}, WindowOptions, HintOutcomes)

FactoryNext == FactoryNew \/ FactoryTranscribe \/ FactoryFlush \/ EngClose

SpecFactory == FactoryInit /\ [][FactoryNext]_vars

\* The health server: the status of "" (all) and of the STT service (svc).
HealthNewServer == [all |-> "SERVING", svc |-> "SERVICE_UNKNOWN"]

SetServingStatus(h, name, status) == [h EXCEPT ![name] = status]

\* The health statuses left as health.NewServer makes them.
InitialHealthDefault == HealthNewServer

\* The health statuses main sets before the server starts.
InitialHealth ==
    SetServingStatus(SetServingStatus(HealthNewServer, "all", "NOT_SERVING"),
                     "svc", "NOT_SERVING")

\* lazySTTServer.StreamTranscription: Unavailable until setServer was called.
LazyStreamTranscription(installed) == IF installed THEN "dispatched" ELSE "Unavailable"

PreInstall == {"load", "bind", "setup", "serve", "manager", "engine", "install"}

NewProcess ==
    [pc |-> "load", bound |-> FALSE, accepting |-> FALSE,
     health |-> [all |-> "none", svc |-> "none"], installed |-> FALSE,
     engineOpen |-> FALSE, engineErr |-> NoErr, signalled |-> FALSE, serverErr |-> FALSE,
     shut |-> "none", exit |-> "running", rpcs |-> 0, earlyCalls |-> 0,
     earlyRejected |-> 0, dispatched |-> 0]

MainInit ==
    /\ eng = NilEngine
    /\ closed = FALSE
    /\ calls = 0
    /\ fed = 0
    /\ last = NoCall
    /\ prev = Summary(NoCall)
    /\ cfg \in {[Language |-> AUTO, ModelVariant |-> v] : v \in Variants}
    /\ streams = [s \in Streams |-> NewStream]
    /\ emitted = <<>>
    /\ ws = whisper_stream_create(CHOOSE c \in StreamConfigs : ~c.use_vad /\ c.keep_context)
    /\ slast = NoStreamCall
    /\ proc = NewProcess

MainKeeps == UNCHANGED <<closed, calls, fed, last, prev, srvVars, emitted, strVars>>

\* os.Exit(1): no deferred call runs.
Exit1(p) == [p EXCEPT !.pc = "exited", !.exit = "1", !.accepting = FALSE]

\* config.Loader{}.Load()
MLoad ==
    /\ proc.pc = "load"
    /\ \E ok \in BOOLEAN :
         proc' = IF ok THEN [proc EXCEPT !.pc = "bind"] ELSE Exit1(proc)
    /\ eng' = eng /\ MainKeeps

\* STEP 1: net.Listen
MBind ==
    /\ proc.pc = "bind"
    /\ \E ok \in BOOLEAN :
         proc' = IF ok THEN [proc EXCEPT !.pc = "setup", !.bound = TRUE] ELSE Exit1(proc)
    /\ eng' = eng /\ MainKeeps

\* STEP 2: the gRPC server, the health server and the lazy service.
MSetup ==
    /\ proc.pc = "setup"
    /\ proc' = [proc EXCEPT !.pc = "serve", !.health = InitialHealth]
    /\ eng' = eng /\ MainKeeps

\* STEP 3: go grpcServer.Serve(lis)
MServe ==
    /\ proc.pc = "serve"
    /\ proc' = [proc EXCEPT !.pc = "manager", !.accepting = TRUE]
    /\ eng' = eng /\ MainKeeps

\* Serve returns an error other than ErrServerStopped.
ServeFails ==
    /\ proc.pc # "exited" /\ proc.accepting /\ ~proc.serverErr
    /\ proc' = [proc EXCEPT !.accepting = FALSE, !.serverErr = TRUE]
    /\ eng' = eng /\ MainKeeps

\* STEP 4: models.NewManager
MManager ==
    /\ proc.pc = "manager"
    /\ \E ok \in BOOLEAN :
         proc' = IF ok THEN [proc EXCEPT !.pc = "engine"] ELSE Exit1(proc)
    /\ eng' = eng /\ MainKeeps

\* STEP 4: engine.New with the manager main has made.
MEngine ==
    /\ proc.pc = "engine"
    /\ \E in \in {i \in FactoryInputs : i.manager} :
         LET r == New(cfg.ModelVariant, in)
         IN  /\ eng' = r.engine
             /\ proc' = [proc EXCEPT !.pc = "install", !.engineOpen = TRUE, !.engineErr = r.err]
    /\ MainKeeps

\* STEP 5: server.New and lazyService.setServer
MInstall ==
    /\ proc.pc = "install"
    /\ proc' = [proc EXCEPT !.pc = "healthAll", !.installed = TRUE]
    /\ eng' = eng /\ MainKeeps

MHealthAll ==
    /\ proc.pc = "healthAll"
    /\ proc' = [proc EXCEPT !.pc = "healthSvc",
                            !.health = SetServingStatus(@, "all", "SERVING")]
    /\ eng' = eng /\ MainKeeps

MHealthSvc ==
    /\ proc.pc = "healthSvc"
    /\ proc' = [proc EXCEPT !.pc = "spawn",
                            !.health = SetServingStatus(@, "svc", "SERVING")]
    /\ eng' = eng /\ MainKeeps

\* STEP 6: the shutdown goroutine is started.
MSpawn ==
    /\ proc.pc = "spawn"
    /\ proc' = [proc EXCEPT !.pc = "wait", !.shut = "waiting"]
    /\ eng' = eng /\ MainKeeps

\* STEP 7: main waits for the server's error or for the signal; on the
\* signal it returns, and the deferred eng.Close and lis.Close run.
MWait ==
    /\ proc.pc = "wait"
    /\ \/ /\ proc.serverErr
          /\ proc' = Exit1(proc)
          /\ eng' = eng
       \/ /\ proc.signalled
          /\ proc' = [proc EXCEPT !.pc = "exited", !.exit = "0", !.accepting = FALSE]
          /\ eng' = Close(eng)
    /\ MainKeeps

\* SIGINT or SIGTERM is delivered.
Signal ==
    /\ proc.pc # "exited" /\ ~proc.signalled
    /\ proc' = [proc EXCEPT !.signalled = TRUE]
    /\ eng' = eng /\ MainKeeps

\* The shutdown goroutine after <-ctx.Done().
GNotServingSvc ==
    /\ proc.pc # "exited" /\ proc.shut = "waiting" /\ proc.signalled
    /\ proc' = [proc EXCEPT !.shut = "svcDown",
                            !.health = SetServingStatus(@, "svc", "NOT_SERVING")]
    /\ eng' = eng /\ MainKeeps

GNotServingAll ==
    /\ proc.pc # "exited" /\ proc.shut = "svcDown"
    /\ proc' = [proc EXCEPT !.shut = "down",
                            !.health = SetServingStatus(@, "all", "NOT_SERVING")]
    /\ eng' = eng /\ MainKeeps

\* grpcServer.GracefulStop begins: no new call is accepted.
GGracefulStop ==
    /\ proc.pc # "exited" /\ proc.shut = "down"
    /\ proc' = [proc EXCEPT !.shut = "graceful", !.accepting = FALSE]
    /\ eng' = eng /\ MainKeeps

\* The graceful stop ends, or 5 s pass and grpcServer.Stop is called.
GStopped ==
    /\ proc.pc # "exited" /\ proc.shut = "graceful"
    /\ proc' = [proc EXCEPT !.shut = "stopped"]
    /\ eng' = eng /\ MainKeeps

\* A client opens StreamTranscription on the listening server.
ClientCall ==
    /\ proc.pc # "exited" /\ proc.accepting /\ proc.rpcs < MaxRpcs
    /\ LET early == proc.pc \in PreInstall
           res == LazyStreamTranscription(proc.installed)
       IN  proc' = [proc EXCEPT
                       !.rpcs = @ + 1,
                       !.earlyCalls = IF early THEN @ + 1 ELSE @,
                       !.earlyRejected = IF early /\ res = "Unavailable" THEN @ + 1 ELSE @,
                       !.dispatched = IF res = "dispatched" THEN @ + 1 ELSE @]
    /\ eng' = eng /\ MainKeeps

MainNext ==
    \/ MLoad \/ MBind \/ MSetup \/ MServe \/ ServeFails \/ MManager \/ MEngine
    \/ MInstall \/ MHealthAll \/ MHealthSvc \/ MSpawn \/ MWait \/ Signal
    \/ GNotServingSvc \/ GNotServingAll \/ GGracefulStop \/ GStopped \/ ClientCall

SpecMain == MainInit /\ [][MainNext]_vars

(***************************************************************************)
(* Properties.                                                             *)
(***************************************************************************)
Returned(s) == streams[s].ret # "running"

Finals(s) == Cardinality({i \in 1..Len(streams[s].sent) : streams[s].sent[i].Final})

SessionFields(e) ==
    <<e.audio, e.lastSegment, e.promptTokens, e.lastText, e.language, e.lastConf>>

PostOpen(e) == SessionFields(e) = <<0, 0, <<>>, <<>>, <<>>, 0>>

\* C1: a stream on which non-empty audio was accepted ends either with
\* exactly one final transcript sent and success, or with an error and no
\* final transcript; never both, never neither, never two finals.
C1_ExactlyOneFinalOrError ==
    \A s \in Streams :
        (Returned(s) /\ streams[s].accepted) =>
            \/ streams[s].ret = NoErr /\ Finals(s) = 1
            \/ streams[s].ret # NoErr /\ Finals(s) = 0

\* C2: with the stub engine, the final transcript of a stream reports the
\* bytes of that stream only, whatever the other stream has sent.
C2_SessionsIndependent ==
    \A s \in Streams : \A i \in 1..Len(streams[s].sent) :
        LET t == streams[s].sent[i]
        IN  (eng.kind = "stub" /\ t.origin \in {"flush", "close"} /\ streams[s].own > 0) =>
                t.Text = StubTotalText(cfg.ModelVariant, streams[s].own)

\* C3: every transcript carries the sequence of the segment that triggered
\* it, and a transcript of a flush-only request or of peer close carries the
\* sequence of the last segment seen on the stream.
C3_SequenceEcho ==
    \A s \in Streams : \A i \in 1..Len(streams[s].sent) :
        streams[s].sent[i].Sequence = streams[s].sent[i].lastSeen

\* C4: StubEngine.TranscribeSegment with N > 0 bytes returns one result
\* "[stub:<variant>] received N bytes", confidence 0.42, final = false, for
\* every Options.
C4_StubTranscribeNonFinal ==
    (eng.kind = "stub" /\ last.op = "transcribe" /\ last.audio > 0) =>
        last.results = <<Result(StubReceivedText(eng.modelVariant, last.audio), 42, FALSE)>>

C6_FlushIdempotent ==
    (last.op = "flush" /\ prev.op = "flush") =>
        /\ last.results = <<>>
        /\ Len(prev.results) + Len(last.results) <= 1

\* C7: after a flush that returns no error, and after close, the native
\* engine holds no buffered audio, no overlap and no prompt tokens.
C7_NoBuffersAfterFlush ==
    (eng.kind = "native" /\ (last.op = "close" \/ (last.op = "flush" /\ last.err = NoErr))) =>
        /\ eng.audio = 0
        /\ eng.lastSegment = 0
        /\ eng.promptTokens = <<>>

\* C8: flush resets the whole session state on its failing paths too: when
\* the last inference fails, and when the context is cancelled before or
\* during the flush, in which case nothing is emitted.
C8_FlushResetsOnFailure ==
    (eng.kind = "native" /\ last.op = "flush") =>
        /\ last.err # NoErr => PostOpen(eng)
        /\ (last.ctx # "live" \/ last.out \in {"early", "abort"}) =>
              (PostOpen(eng) /\ last.results = <<>>)

C10_CancelDuringProcess ==
    /\ (eng.kind = "native" /\ last.op = "transcribe" /\ last.out = "abort") =>
          (last.err \in CtxErrs /\ last.results = <<>>)
    /\ (eng.kind = "native" /\ last.op = "flush" /\ last.ctx = "live"
            /\ last.out \notin {"early", "abort"}
            /\ prev.op = "transcribe" /\ prev.out = "abort") =>
          (last.err = NoErr /\ Len(last.results) <= 1)

\* C11: when the transcriber returns a non-zero code the call reports the
\* context's error if the context is cancelled at that moment, and the
\* inference failure only if it is not.  (TranscribeSegment and Flush of
\* internal/whisper return the error of runInference unchanged.)
C11_CancelledWins ==
    (last.op \in {"transcribe", "flush"} /\ last.ran) =>
        /\ last.out = "abort" => last.err \in CtxErrs
        /\ last.out = "fail" => last.err = "InferenceFailed"

RECURSIVE JoinSpace(_)
JoinSpace(texts) ==
    IF texts = <<>> THEN <<>>
    ELSE IF Len(texts) = 1 THEN texts[1]
    ELSE texts[1] \o <<" ">> \o JoinSpace(Tail(texts))

IsPrefix(p, t) == Len(p) <= Len(t) /\ SubSeq(t, 1, Len(p)) = p

\* C13: after every whisper_stream_process, in the windowed and in the VAD
\* configuration, the accumulated transcript equals the single-space join
\* of the partial texts returned since the last flush, and the transcript
\* before the call is a prefix of the transcript after it.
C13_MonotonicPartials ==
    slast.op = "process" =>
        /\ TrimSpace(ws.transcript) = TrimSpace(JoinSpace(emitted))
        /\ IsPrefix(slast.preTranscript, ws.transcript)

\* C14: a flush that finds residual audio runs one last inference and
\* returns the trimmed accumulated transcript, that is all the deltas
\* emitted since the last flush followed by the delta of the last window,
\* not the text of the last window alone.  In the C++ context the last
\* window is the tail of pcmf32_old (same take rule as process) followed by
\* pcmf32_new.
C14_FlushFinalIsAccumulated ==
    /\ (eng.kind = "native" /\ last.op = "flush" /\ last.ran /\ last.out = "ok"
            /\ last.err = NoErr /\ emitted # <<>>) =>
          /\ Len(last.results) = 1
          /\ IsPrefix(TrimSpace(JoinSpace(emitted)), last.results[1].Text)
    /\ (slast.op = "flush" /\ ~ws.use_vad /\ slast.ran) =>
          /\ slast.window = slast.preNew
                + Min(slast.preOld,
                      Max(0, ws.n_samples_keep + ws.n_samples_len - slast.preNew))
          /\ slast.rc = 1 => IsPrefix(TrimSpace(slast.preTranscript), slast.text)

\* C15: a process call that brings the new-audio buffer above the cap
\* (n_samples_len, the samples of length_ms) fails with the overflow error
\* before any inference, and leaves the buffers as they were.
C15_OverflowReported ==
    (slast.op = "process" /\ ~ws.use_vad /\ slast.n > 0
        /\ slast.preNew + slast.n > ws.n_samples_len) =>
        /\ slast.rc < 0
        /\ ~slast.ran
        /\ slast.same

C17_ResolveLanguage ==
    streams["A"].initLogged =>
        LET m == streams["A"].firstMeta
            c == cfg.Language
            r == streams["A"].streamLang
        IN  /\ c = CLIENT /\ (\E i \in 1..Len(m) : ~IsSpace(m[i])) =>
                  /\ r = TrimSpace(m)
                  /\ ~IsSpace(r[1]) /\ ~IsSpace(r[Len(r)])
            /\ c = CLIENT /\ (\A i \in 1..Len(m) : IsSpace(m[i])) => r = AUTO
            /\ c = AUTO => r = AUTO
            /\ c \notin {CLIENT, AUTO} => r = c
            /\ resolveLanguage(r, m) = r

C17_Witness ==
    /\ streams["A"].initLogged
    /\ cfg.Language = CLIENT
    /\ streams["A"].firstMeta = <<" ", "e", "n", " ">>
    /\ streams["A"].streamLang = <<"e", "n">>
    /\ streams["A"].reqs = 2

\* C18: the language of a stream is resolved once, from the configuration
\* and the metadata of the request that opened the stream; every engine call
\* of the stream received that value as Options.Language and every
\* transcript sent carries it, whatever metadata later requests carried.
C18_LanguageResolvedOnce ==
    LET st == streams["A"]
    IN  /\ st.resolutions = (IF st.initLogged THEN 1 ELSE 0)
        /\ st.initLogged => st.streamLang = resolveLanguage(cfg.Language, st.firstMeta)
        /\ st.langs \subseteq {st.streamLang}
        /\ \A i \in 1..Len(st.sent) : st.sent[i].Language = st.streamLang

C18_Witness ==
    /\ cfg.Language = CLIENT
    /\ streams["A"].metaChanged
    /\ streams["A"].firstMeta = <<" ", "e", "n", " ">>
    /\ streams["A"].langs = {<<"e", "n">>}
    /\ Len(streams["A"].sent) = 2
    /\ streams["A"].sent[2].origin = "flush"

C20_EngineErrorEndsStream ==
    LET st == streams["A"]
    IN  st.engErr # NoErr =>
            /\ st.ret = st.engErr
            /\ Len(st.sent) = st.atErr.sent
            /\ st.reqs = st.atErr.reqs
            /\ st.engCalls = st.atErr.calls

C20_Witness ==
    /\ streams["A"].engErr = "InferenceFailed"
    /\ streams["A"].ret = "InferenceFailed"
    /\ Len(streams["A"].sent) = 1
    /\ streams["A"].reqs = 2
    /\ streams["A"].engCalls = 2

\* C21: the transcripts of a stream are in the order of the requests that
\* produced them; within one request the results of TranscribeSegment come
\* before those of Flush; and once the results of a flush request were sent
\* the stream has returned success, so they are the last transcripts and no
\* later request was handled.
C21_SentInOrder ==
    LET st == streams["A"]
        n == Len(st.sent)
    IN  /\ \A i, j \in 1..n :
              i < j => /\ st.sent[i].reqNo <= st.sent[j].reqNo
                       /\ st.sent[i].reqNo = st.sent[j].reqNo =>
                              ~(st.sent[i].origin = "flush" /\ st.sent[j].origin = "segment")
        /\ \A i \in 1..n :
              st.sent[i].origin = "flush" =>
                  /\ i = n
                  /\ st.ret = NoErr
                  /\ st.reqs = st.sent[i].reqNo

C21_Witness ==
    LET st == streams["A"]
    IN  /\ Len(st.sent) = 3
        /\ st.sent[1].reqNo = 1 /\ st.sent[1].origin = "segment"
        /\ st.sent[2].reqNo = 2 /\ st.sent[2].origin = "segment"
        /\ st.sent[3].reqNo = 2 /\ st.sent[3].origin = "flush"
        /\ st.ret = NoErr

\* C22: when the peer closed the stream, the engine's Flush was called
\* exactly when audio had been accepted on the stream; with no audio
\* accepted the stream returned success and sent no transcript; and a flush
\* after a cancellation ran with a context that was not cancelled.
C22_FlushOnCloseIffAudio ==
    LET st == streams["A"]
    IN  st.peerClose =>
            /\ st.closeFlushed <=> st.accepted
            /\ ~st.accepted => (st.ret = NoErr /\ st.sent = <<>>)
            /\ (st.closeFlushed /\ st.ctx = "Canceled") => st.closeCtx = "live"

\* C23: the listener is bound before the engine (and its model) is made;
\* while the server accepts calls and the real service is not installed, both
\* health statuses are NOT_SERVING, and SERVING is set only with the engine
\* open and the service installed; every call that arrived before the
\* installation was rejected; and the graceful stop begins only with both
\* statuses NOT_SERVING.
C23_LifecycleOrder ==
    proc.pc \notin {"none", "factory", "made"} =>
        /\ proc.engineOpen => proc.bound
        /\ (proc.accepting /\ ~(proc.engineOpen /\ proc.installed)) =>
              (proc.health.all = "NOT_SERVING" /\ proc.health.svc = "NOT_SERVING")
        /\ (proc.health.all = "SERVING" \/ proc.health.svc = "SERVING") =>
              (proc.engineOpen /\ proc.installed)
        /\ proc.earlyRejected = proc.earlyCalls
        /\ proc.dispatched > 0 => (proc.engineOpen /\ eng.kind \in {"stub", "native"})
        /\ proc.shut \in {"graceful", "stopped"} =>
              (proc.health.all = "NOT_SERVING" /\ proc.health.svc = "NOT_SERVING")

C23_Witness ==
    /\ proc.pc = "wait"
    /\ proc.shut = "graceful"
    /\ proc.earlyRejected = 1
    /\ proc.dispatched = 1
    /\ eng.kind = "native"

\* C24: the factory always returns an engine; it is the stub with no error
\* when the stub is forced and no model path has to be resolved (or the path
\* resolves); the stub with an error when the forced stub's path does not
\* resolve, and, the stub not forced, when there is no manager, the manifest
\* is empty, the model cannot be ensured, or the native backend is absent or
\* fails to start; and a native engine comes with no error only.
C24_FactoryFallsBack ==
    proc.pc = "made" =>
        LET in == proc.in
            forcedClean == in.useStub /\ (~(in.manager /\ in.pathSet) \/ in.resolveOk)
            failed == \/ in.useStub /\ in.manager /\ in.pathSet /\ ~in.resolveOk
                      \/ ~in.useStub /\ (\/ ~in.manager
                                         \/ in.manifestEmpty
                                         \/ ~in.ensureOk
                                         \/ ~in.nativeAvailable
                                         \/ ~in.nativeInitOk)
        IN  /\ eng.kind \in {"stub", "native"}
            /\ forcedClean => (eng.kind = "stub" /\ proc.err = NoErr)
            /\ failed => (eng.kind = "stub" /\ proc.err # NoErr)
            /\ eng.kind = "native" => proc.err = NoErr
            /\ (~forcedClean /\ ~failed) => eng.kind = "native"

C24_Witness ==
    /\ proc.pc = "made"
    /\ ~proc.in.useStub /\ proc.in.manager /\ ~proc.in.manifestEmpty /\ proc.in.ensureOk
    /\ proc.in.nativeAvailable /\ ~proc.in.nativeInitOk
    /\ eng.kind = "stub" /\ proc.err = "NativeInitFailed"
    /\ last.op = "flush" /\ Len(last.results) = 1

\* The streams that were started and on whose metrics Finish was not called.
Unfinished == {s \in Streams : streams[s].m.handle /\ streams[s].m.finishCalls = 0}

\* C25: ActiveStreams is the number of streams started and not yet finished;
\* a second Finish on the same stream decrements nothing and changes no
\* total; every return of a started stream (flush, EOF, engine error,
\* transport error) has finished its metrics, so ActiveStreams is 0 when no
\* stream is open; no total ever decreases.
C25_TelemetryCounts ==
    /\ [](/\ Snapshot.ActiveStreams = Cardinality(Unfinished)
          /\ Snapshot.ActiveStreams = Snapshot.TotalStreams
                 - Cardinality({s \in Streams : streams[s].m.finishCalls > 0})
          /\ \A s \in Streams :
                (Returned(s) /\ streams[s].m.handle) => streams[s].m.finishCalls >= 1
          /\ (\A s \in Streams : Returned(s)) => Snapshot.ActiveStreams = 0)
    /\ [][/\ Snapshot.TotalStreams' >= Snapshot.TotalStreams
          /\ Snapshot.TotalSegments' >= Snapshot.TotalSegments
          /\ Snapshot.TotalBytes' >= Snapshot.TotalBytes
          /\ Snapshot.TotalTranscripts' >= Snapshot.TotalTranscripts
          /\ Snapshot.TotalFinalTranscripts' >= Snapshot.TotalFinalTranscripts
          /\ Snapshot.TotalFlushes' >= Snapshot.TotalFlushes
          /\ \A s \in Streams :
                (streams[s].m.finishCalls >= 1 /\ streams'[s].m.finishCalls > streams[s].m.finishCalls)
                    => Snapshot' = Snapshot]_vars

\* Both streams were started and returned, one on an engine error and one on
\* a transport error, and Finish was called a second time on one of them.
C25_Witness ==
    /\ \A s \in Streams : streams[s].m.handle /\ Returned(s)
    /\ \E s \in Streams : streams[s].m.finishCalls = 2
    /\ \E s \in Streams : streams[s].engErr # NoErr
    /\ \E s \in Streams : streams[s].ret = "Transport"
    /\ Snapshot.TotalStreams = 2
    /\ Snapshot.TotalFlushes >= 1
    /\ Snapshot.ActiveStreams = 0

\* The lengths k for which the last k tokens of previous are the first k of current.
SuffixMatches(previous, current) ==
    {k \in 0..Min(Len(previous), Len(current)) :
        SubSeq(previous, Len(previous) - k + 1, Len(previous)) = SubSeq(current, 1, k)}

LongestSuffixMatch(previous, current) ==
    CHOOSE k \in SuffixMatches(previous, current) :
        \A j \in SuffixMatches(previous, current) : j <= k

\* C26: find_common_prefix(previous, current) is the largest k such that the
\* last k tokens of previous equal the first k tokens of current, 0 when no
\* non-empty suffix of previous matches.
C26_LongestSuffixOfPrevious ==
    proc.pc = "extracted" =>
        proc.new_start = LongestSuffixMatch(proc.previous, proc.current)

\* C27: a call of process whose window's tokens end in 8 equal tokens emits
\* no result and leaves the transcript as it was before the call.
C27_RepetitionLoopDiscarded ==
    (/\ slast.op = "process"
     /\ slast.ran
     /\ slast.rc # -2
     /\ has_repetition_loop(ws.current_tokens)) =>
        (slast.rc # 1 /\ ws.transcript = slast.preTranscript)

\* C28: the audio buffered since the last inference is never longer than the
\* window length (targetWindowSeconds of audio).
C28_AudioNewCapped ==
    eng.kind = "native" => eng.audio <= targetWindowBytes

\* C29: the window handed to the transcriber and the audio retained from it
\* are never longer than length_ms worth of samples.
C29_AudioOldCapped ==
    ~ws.use_vad =>
        /\ ws.pcmf32_old <= ws.n_samples_len
        /\ (slast.op = "process" /\ slast.ran) => slast.window <= ws.n_samples_len

\* C30: the decoder context kept for the next inference holds at most 224
\* tokens.
C30_PromptTokensCapped ==
    /\ Len(ws.prompt_tokens) <= maxPromptTokens
    /\ eng.kind = "native" => Len(eng.promptTokens) <= maxPromptTokens

\* The step is a call of the C++ stream / of the Go engine.
StreamStep == calls' = calls + 1 /\ slast'.at = calls'

EngineStep == calls' = calls + 1 /\ last'.at = calls'

\* C31: a process call with empty pcm changes no engine state and returns no
\* result; a call that leaves the buffered audio below the firing threshold
\* returns no result, runs no inference and only appends the pcm.
C31_FiringFrame ==
    [][/\ (StreamStep /\ slast'.op = "process" /\ slast'.n = 0) =>
              (ws' = ws /\ slast'.rc # 1 /\ slast'.text = <<>> /\ ~slast'.ran)
       /\ (/\ StreamStep /\ slast'.op = "process" /\ ~ws.use_vad
           /\ slast'.n > 0 /\ ws.pcmf32_new + slast'.n < ws.n_samples_step) =>
              /\ ws' = [ws EXCEPT !.pcmf32_new = @ + slast'.n,
                                  !.new_data = Join(@, Samples(ws.received, slast'.n)),
                                  !.received = @ + slast'.n]
              /\ slast'.rc = 0 /\ slast'.text = <<>> /\ ~slast'.ran
       /\ (EngineStep /\ last'.op = "transcribe" /\ last'.audio = 0) =>
              (eng' = eng /\ last'.results = <<>> /\ ~last'.ran)
       /\ (/\ EngineStep /\ last'.op = "transcribe" /\ last'.ctx = "live"
           /\ last'.audio > 0 /\ eng.audio + last'.audio < minWhisperBytes) =>
              /\ eng' = [eng EXCEPT !.audio = @ + last'.audio]
              /\ last'.results = <<>> /\ last'.err = NoErr /\ ~last'.ran]_vars

\* The stream holds audio below the step after a window was processed, and
\* the engine holds audio below its threshold.
C31_Witness ==
    /\ slast.op = "process" /\ slast.rc = 0 /\ ~slast.ran
    /\ ws.pcmf32_new = 16000 /\ ws.pcmf32_old > 0
    /\ last.op = "transcribe" /\ last.audio = 4 /\ eng.audio = 4

\* The samples of audio_new once `n` more samples are appended.
NewWith(w, n) == Join(w.new_data, Samples(w.received, n))

\* The window of the firing rule: the last take samples of audio_old, then
\* all of audio_new.
ExpectedWindow(w, new) ==
    Join(LastSamples(w.old_data,
                     Min(Size(w.old_data),
                         Max(0, w.n_samples_keep + w.n_samples_len - Size(new)))),
         new)

\* The stream `w2` and the call record `sl` after a call that turned the
\* stream `w` into `window`.
WindowHandedOver(w, w2, sl, window) ==
    /\ sl.ran
    /\ w2.data = window
    /\ sl.window = Size(window) /\ w2.pcmf32 = Size(window)
    /\ w2.new_data = <<>> /\ w2.pcmf32_new = 0
    /\ w2.old_data = IF w2.n_iter # w.n_iter /\ w2.n_iter % w.n_new_line = 0
                      THEN LastSamples(window, Min(w.n_samples_keep, Size(window)))
                      ELSE window
    /\ w2.pcmf32_old = Size(w2.old_data)

RetainedAfterInference(w, w2) ==
    IF w2.n_iter % w.n_new_line = 0
    THEN /\ w2.old_data = LastSamples(w2.data, Min(w.n_samples_keep, Size(w2.data)))
         /\ w2.prompt_tokens = IF w.no_context THEN w.prompt_tokens ELSE w2.current_tokens
    ELSE /\ w2.old_data = w2.data
         /\ w2.prompt_tokens = w.prompt_tokens

ExpectedTail(w, n, cap) == LastSamples(Join(w.vad_data, Samples(w.received, n)), cap)

\* The stream `w2` and the call record `sl` after a process call that made
\* the rolling tail `tail`.
VadDiscipline(w, w2, sl, tail) ==
    /\ Size(w2.vad_data) <= w.n_samples_len + samples_from_ms(kVadWindowMs)
    /\ w2.pcmf32_vad = Size(w2.vad_data)
    /\ Size(tail) < samples_from_ms(kVadWindowMs) => ~sl.ran
    /\ IF sl.ran
       THEN /\ sl.handed = LastSamples(tail, Min(w.n_samples_len, Size(tail)))
            /\ sl.window = Size(sl.handed)
            /\ w2.vad_data = <<>>
       ELSE w2.vad_data = tail

\* C34: in VAD mode the rolling tail holds at most length + 2 s of samples
\* after every process call, oldest dropped first; no inference runs while
\* the tail is shorter than the VAD window; when the gate fires the window is
\* the last min(length, |tail|) samples of the tail and the tail is emptied.
C34_VadBuffer ==
    [][(StreamStep /\ ws.use_vad /\ slast'.op = "process" /\ slast'.n > 0) =>
          VadDiscipline(ws, ws', slast',
                        ExpectedTail(ws, slast'.n,
                                     ws.n_samples_len + samples_from_ms(kVadWindowMs)))]_vars

\* The gate fired on a tail that had been cut to length + 2 s: the window is
\* the last 160000 of the 200000 samples received.
C34_Witness ==
    /\ ws.use_vad /\ slast.op = "process" /\ slast.ran
    /\ slast.handed = <<[from |-> 40000, to |-> 200000]>>
    /\ ws.pcmf32_vad = 0
(***************************************************************************)
(* The text differ on its own: diffTranscript applied to bounded texts.    *)
(***************************************************************************)
MaxTextLen == 3

DiffRunes == {"a", "b", " ", "\f"}

TextsUpTo(n) == UNION {[1..k -> DiffRunes] : k \in 0..n}

DiffInit ==
    /\ eng \in {NewNativeEngine(v) : v \in Variants}
    /\ closed = FALSE
    /\ calls = 0
    /\ fed = 0
    /\ last = NoCall
    /\ prev = Summary(NoCall)
    /\ cfg = [Language |-> AUTO, ModelVariant |-> "small"]
    /\ streams = [s \in Streams |-> NewStream]
    /\ emitted = <<>>
    /\ ws = whisper_stream_create(CHOOSE k \in StreamConfigs : ~k.use_vad /\ k.keep_context)
    /\ slast = NoStreamCall
    /\ \E x \in TextsUpTo(MaxTextLen), y \in TextsUpTo(MaxTextLen) :
         proc = [pc |-> "texts", previous |-> x, current |-> y]

\* diffTranscript(previous, current) on two unrelated texts.
DiffTexts ==
    /\ proc.pc = "texts"
    /\ proc' = [pc |-> "diffed",
                previous |-> proc.previous,
                current |-> proc.current,
                delta |-> diffTranscript(proc.previous, proc.current)]
    /\ UNCHANGED <<eng, closed, calls, fed, last, prev, cfg, streams, emitted, ws, slast>>

\* diffTranscript(p, p + s): the second text is appended to the first.
DiffAppended ==
    /\ proc.pc = "texts"
    /\ proc' = [pc |-> "appended",
                previous |-> proc.previous,
                current |-> proc.previous \o proc.current,
                suffix |-> proc.current,
                delta |-> diffTranscript(proc.previous, proc.previous \o proc.current)]
    /\ UNCHANGED <<eng, closed, calls, fed, last, prev, cfg, streams, emitted, ws, slast>>

DiffNext == DiffTexts \/ DiffAppended

SpecDiff == DiffInit /\ [][DiffNext]_vars

\* s without its leading characters from the set white.
LeadingRemoved(s, white) ==
    LET kept == {i \in 1..Len(s) : s[i] \notin white}
    IN  IF kept = {} THEN <<>>
        ELSE SubSeq(s, CHOOSE i \in kept : \A j \in kept : i <= j, Len(s))

\* s without its leading and trailing white space.
Trimmed(s) ==
    LET kept == {i \in 1..Len(s) : ~IsSpace(s[i])}
    IN  IF kept = {} THEN <<>>
        ELSE SubSeq(s, CHOOSE i \in kept : \A j \in kept : i <= j,
                       CHOOSE i \in kept : \A j \in kept : i >= j)

StartsWith(c, p) == Len(p) <= Len(c) /\ \A i \in 1..Len(p) : c[i] = p[i]

DeltaOf(p, c) ==
    IF p = <<>> THEN c
    ELSE IF p = c THEN <<>>
    ELSE IF ~StartsWith(c, p) THEN c
    ELSE LeadingRemoved(SubSeq(c, Len(p) + 1, Len(c)), Cutset)

\* C35: diffTranscript(previous, current) trims both inputs, then returns the
\* trimmed current when previous is empty, the empty text when they are equal,
\* the trimmed current when previous is longer than current or differs from it
\* within its own length, and otherwise the rest of current after the shared
\* prefix without its leading space, tab, CR and LF.
C35_DiffTranscript ==
    proc.pc = "diffed" =>
        proc.delta = DeltaOf(Trimmed(proc.previous), Trimmed(proc.current))

C35_Witness ==
    /\ proc.pc = "diffed"
    /\ proc.previous = <<"a", " ">>
    /\ proc.current = <<"a", " ", "b">>
    /\ proc.delta = <<"b">>

\* C36: diffTranscript(p, p + s) is s without its leading white space, for
\* every text p and every suffix s.
C36_RoundTrip ==
    proc.pc = "appended" =>
        proc.delta = LeadingRemoved(proc.suffix, {c \in DiffRunes : IsSpace(c)})

OnlyCutsetSpace(s) == \A i \in 1..Len(s) : IsSpace(s[i]) => s[i] \in Cutset

EndsWith(d, r) ==
    /\ Len(r) <= Len(d)
    /\ SubSeq(d, Len(d) - Len(r) + 1, Len(d)) = r
    /\ \A i \in 1..(Len(d) - Len(r)) : IsSpace(d[i])

\* C36 (amended): diffTranscript(p, p + s) is s without its leading and
\* trailing white space when the white space of p and s is space, tab, CR or
\* LF; with other white space it is that text, possibly preceded by white
\* space.
C36_RoundTripTrimmed ==
    proc.pc = "appended" =>
        /\ EndsWith(proc.delta, Trimmed(proc.suffix))
        /\ (OnlyCutsetSpace(proc.previous) /\ OnlyCutsetSpace(proc.suffix)) =>
               proc.delta = Trimmed(proc.suffix)

C36_Witness ==
    /\ proc.pc = "appended"
    /\ proc.previous = <<"a", " ">>
    /\ proc.suffix = <<" ", "b", " ">>
    /\ proc.delta = <<"b">>

(***************************************************************************)
(* The two mutexes of the Go native engine under concurrent calls.        *)
(* Goroutines call TranscribeSegment, Flush, Close and SetDefaultLanguage  *)
(* on one engine; a step is a Lock, or the code up to the next Unlock or   *)
(* the next call into the transcriber.  proc holds                         *)
(*   pc, op   where each goroutine is and which call it is in              *)
(*   buf      the goroutine's local buffer (0 empty, 2 a window)           *)
(*   mu, inferMu   the holder of each mutex, or NoOwner                    *)
(*   audio    e.audio: 0 empty, 1 below minWhisperBytes, 2 at or above it  *)
(*   promptTokens  whether e.promptTokens is non-nil                       *)
(*   ctx      e.ctx: "live" or "nil";  frees  the calls of whisper_free    *)
(*   crashed  the process died inside the transcriber library              *)
(***************************************************************************)
Goroutines == {"g1", "g2", "g3"}

NoOwner == "none"

LocksInit ==
    /\ eng \in {NewNativeEngine(v) : v \in Variants}
    /\ closed = FALSE
    /\ calls = 0
    /\ fed = 0
    /\ last = NoCall
    /\ prev = Summary(NoCall)
    /\ cfg = [Language |-> AUTO, ModelVariant |-> "small"]
    /\ streams = [s \in Streams |-> NewStream]
    /\ emitted = <<>>
    /\ ws = whisper_stream_create(CHOOSE k \in StreamConfigs : ~k.use_vad /\ k.keep_context)
    /\ slast = NoStreamCall
    /\ proc = [pc |-> [g \in Goroutines |-> "idle"],
               op |-> [g \in Goroutines |-> "none"],
               buf |-> [g \in Goroutines |-> 0],
               mu |-> NoOwner, inferMu |-> NoOwner,
               audio |-> 0, promptTokens |-> FALSE,
               ctx |-> "live", frees |-> 0, crashed |-> FALSE]

LocksKeep == UNCHANGED <<eng, closed, calls, fed, last, prev, cfg, streams, emitted, ws, slast>>

At(g, pc) == ~proc.crashed /\ proc.pc[g] = pc

\* A call begins: op with its first position, or an immediate return.
Begin(g, op, pc) ==
    /\ At(g, "idle") /\ calls < MaxCalls
    /\ calls' = calls + 1
    /\ proc' = [proc EXCEPT !.pc[g] = pc, !.op[g] = IF pc = "idle" THEN "none" ELSE op,
                            !.buf[g] = 0]
    /\ UNCHANGED <<eng, closed, fed, last, prev, cfg, streams, emitted, ws, slast>>

\* sync.Mutex.Lock on e.mu / e.inferMu: blocks while another holds it.
LockMu(g, from, to) ==
    /\ At(g, from) /\ proc.mu = NoOwner
    /\ proc' = [proc EXCEPT !.mu = g, !.pc[g] = to]
    /\ LocksKeep

LockInferMu(g, from, to) ==
    /\ At(g, from) /\ proc.inferMu = NoOwner
    /\ proc' = [proc EXCEPT !.inferMu = g, !.pc[g] = to]
    /\ LocksKeep

\* Where a call goes on when runInference returns.
AfterInference(p, g, err) ==
    IF p.op[g] = "TranscribeSegment"
    THEN IF err = "none" THEN "ts_lock3" ELSE "idle"
    ELSE IF err = "canceled" THEN "idle" ELSE "fl_lock2"

Leave(p, g, pc) ==
    [p EXCEPT !.pc[g] = pc, !.op[g] = IF pc = "idle" THEN "none" ELSE @]

\* ---- TranscribeSegment ----
CallTranscribeSegment(g) ==
    \E early \in BOOLEAN :
        Begin(g, "TranscribeSegment", IF early THEN "idle" ELSE "ts_lock1")

TsLock1(g) == LockMu(g, "ts_lock1", "ts_cs1")

TsReadLanguage(g) ==
    /\ At(g, "ts_cs1")
    /\ proc' = [proc EXCEPT !.mu = NoOwner, !.pc[g] = "ts_lock2"]
    /\ LocksKeep

TsLock2(g) == LockMu(g, "ts_lock2", "ts_cs2")

TsWindowKeepsLock(g) ==
    /\ At(g, "ts_cs2")
    /\ \E chunk \in {1, 2} :
         LET audio == Min(2, proc.audio + chunk)
         IN  proc' = IF audio < 2
                     THEN Leave([proc EXCEPT !.audio = audio, !.mu = NoOwner], g, "idle")
                     ELSE [proc EXCEPT !.audio = audio, !.buf[g] = 2, !.pc[g] = "ri_enter"]
    /\ LocksKeep

TsWindow(g) ==
    /\ At(g, "ts_cs2")
    /\ \E chunk \in {1, 2} :
         LET audio == Min(2, proc.audio + chunk)
         IN  proc' = IF audio < 2
                     THEN Leave([proc EXCEPT !.audio = audio, !.mu = NoOwner], g, "idle")
                     ELSE [proc EXCEPT !.audio = audio, !.buf[g] = 2, !.mu = NoOwner,
                                       !.pc[g] = "ri_enter"]
    /\ LocksKeep

TsLock3(g) == LockMu(g, "ts_lock3", "ts_cs3")

TsCommit(g) ==
    /\ At(g, "ts_cs3")
    /\ proc' = Leave([proc EXCEPT !.audio = 0, !.mu = NoOwner], g, "idle")
    /\ LocksKeep

\* ---- runInference ----
RiEnter(g) ==
    /\ At(g, "ri_enter")
    /\ \E canceled \in BOOLEAN :
         proc' = IF canceled THEN Leave(proc, g, AfterInference(proc, g, "canceled"))
                 ELSE [proc EXCEPT !.pc[g] = "ri_lock"]
    /\ LocksKeep

RiLock(g) == LockInferMu(g, "ri_lock", "ri_init")

\* whisper_init_state(e.ctx), the parameters with e.promptTokens, and the
\* entry into whisper_full_with_state.  On a nil context the library either
\* fails to give a state or the process dies; e.promptTokens = nil of a reset
\* by a goroutine that holds only e.mu can fall between len(e.promptTokens) > 0
\* and &e.promptTokens[0], which then panics.
RiInitState(g) ==
    /\ At(g, "ri_init")
    /\ \E state \in {"state", "nil", "crash"} :
         /\ state = "crash" =>
                \/ proc.ctx = "nil"
                \/ proc.promptTokens /\ \E h \in Goroutines \ {g} : proc.pc[h] = "fl_cs2"
         /\ state = "state" => proc.ctx = "live"
         /\ proc' = IF state = "crash" THEN [proc EXCEPT !.crashed = TRUE]
                    ELSE IF state = "nil"
                    THEN Leave([proc EXCEPT !.inferMu = NoOwner], g,
                               AfterInference(proc, g, "failed"))
                    ELSE [proc EXCEPT !.pc[g] = "ri_full"]
    /\ LocksKeep

\* whisper_full_with_state returns.
RiFullReturns(g) ==
    /\ At(g, "ri_full")
    /\ \E err \in {"none", "canceled", "failed"} :
         proc' = IF err = "none" THEN [proc EXCEPT !.pc[g] = "ri_collect"]
                 ELSE Leave([proc EXCEPT !.inferMu = NoOwner], g,
                            AfterInference(proc, g, err))
    /\ LocksKeep

RiCollect(g) ==
    /\ At(g, "ri_collect")
    /\ \E nSegments \in {0, 1} :
         proc' = Leave([proc EXCEPT !.promptTokens = IF nSegments = 0 THEN @ ELSE TRUE,
                                    !.inferMu = NoOwner], g,
                       AfterInference(proc, g, "none"))
    /\ LocksKeep

\* ---- Flush ----
CallFlush(g) ==
    \E early \in BOOLEAN : Begin(g, "Flush", IF early THEN "idle" ELSE "fl_lock1")

FlLock1(g) == LockMu(g, "fl_lock1", "fl_cs1")

FlSnapshotKeepsLock(g) ==
    /\ At(g, "fl_cs1")
    /\ proc' = [proc EXCEPT !.buf[g] = proc.audio,
                            !.pc[g] = IF proc.audio > 0 THEN "ri_enter" ELSE "fl_conf"]
    /\ LocksKeep

FlSnapshot(g) ==
    /\ At(g, "fl_cs1")
    /\ proc' = [proc EXCEPT !.buf[g] = proc.audio, !.mu = NoOwner,
                            !.pc[g] = IF proc.audio > 0 THEN "ri_enter" ELSE "fl_conf"]
    /\ LocksKeep

\* confidence = e.lastConf, read with no mutex held.
FlReadConf(g) ==
    /\ At(g, "fl_conf")
    /\ proc' = [proc EXCEPT !.pc[g] = "fl_lock2"]
    /\ LocksKeep

FlLock2(g) == LockMu(g, "fl_lock2", "fl_cs2")

FlReset(g) ==
    /\ At(g, "fl_cs2")
    /\ proc' = Leave([proc EXCEPT !.audio = 0, !.promptTokens = FALSE, !.mu = NoOwner],
                     g, "idle")
    /\ LocksKeep

\* ---- Close ----
CallClose(g) == Begin(g, "Close", "cl_lockInfer")

ClLockInfer(g) == LockInferMu(g, "cl_lockInfer", "cl_lockMu")

ClLockMu(g) == LockMu(g, "cl_lockMu", "cl_cs")

ClFree(g) ==
    /\ At(g, "cl_cs")
    /\ proc' = Leave([proc EXCEPT !.audio = 0, !.promptTokens = FALSE,
                                  !.frees = IF proc.ctx = "live" THEN @ + 1 ELSE @,
                                  !.ctx = "nil",
                                  !.mu = NoOwner, !.inferMu = NoOwner], g, "idle")
    /\ LocksKeep

\* ---- SetDefaultLanguage ----
CallSetDefaultLanguage(g) == Begin(g, "SetDefaultLanguage", "sd_lock")

SdLock(g) == LockMu(g, "sd_lock", "sd_cs")

SdStore(g) ==
    /\ At(g, "sd_cs")
    /\ proc' = Leave([proc EXCEPT !.mu = NoOwner], g, "idle")
    /\ LocksKeep

\* A step of a call that has begun.
Proceed(g) ==
    \/ TsLock1(g) \/ TsReadLanguage(g) \/ TsLock2(g) \/ TsWindow(g) \/ TsLock3(g)
    \/ TsCommit(g)
    \/ RiEnter(g) \/ RiLock(g) \/ RiInitState(g) \/ RiFullReturns(g) \/ RiCollect(g)
    \/ FlLock1(g) \/ FlSnapshot(g) \/ FlReadConf(g) \/ FlLock2(g) \/ FlReset(g)
    \/ ClLockInfer(g) \/ ClLockMu(g) \/ ClFree(g)
    \/ SdLock(g) \/ SdStore(g)

LocksNext ==
    \E g \in Goroutines :
        \/ CallTranscribeSegment(g) \/ CallFlush(g) \/ CallClose(g) \/ CallSetDefaultLanguage(g)
        \/ Proceed(g)

SpecLocks == LocksInit /\ [][LocksNext]_vars

\* The scheduler runs every goroutine that can take a step; callers are not
\* obliged to begin calls.
SpecLocksFair == SpecLocks /\ \A g \in Goroutines : WF_vars(Proceed(g))

\* Positions between e.inferMu.Lock() and its deferred Unlock in runInference;
\* at "ri_full" the goroutine is inside whisper_full_with_state.
InsideInference == {"ri_init", "ri_full", "ri_collect"}

Holds(g) ==
    (IF proc.mu = g THEN {"mu"} ELSE {}) \cup (IF proc.inferMu = g THEN {"inferMu"} ELSE {})

\* C37: a goroutine holds the state mutex neither when it asks for the
\* inference mutex nor while it is inside runInference's critical section (it
\* is released before and taken again only after the inference), and at most
\* one goroutine is inside the transcriber at a time, whatever the
\* interleaving of TranscribeSegment, Flush and Close.
C37_LockDiscipline ==
    /\ \A g \in Goroutines :
         proc.pc[g] \in InsideInference \cup {"ri_enter", "ri_lock"} => proc.mu # g
    /\ \A g \in Goroutines :
         proc.pc[g] \in {"ts_lock3", "fl_lock2"} => Holds(g) = {}
    /\ \A g, h \in Goroutines :
         (proc.pc[g] \in InsideInference /\ proc.pc[h] \in InsideInference) => g = h
    /\ \A g \in Goroutines : proc.pc[g] \in InsideInference => proc.inferMu = g

\* Two inferences are wanted at once and Close is waiting too: one goroutine is
\* inside whisper_full, another waits for the inference mutex with its window
\* built, and a third holds the state mutex.
C37_Witness ==
    \E g, h, k \in Goroutines :
        /\ proc.pc[g] = "ri_full" /\ proc.op[g] = "TranscribeSegment"
        /\ proc.pc[h] = "ri_lock" /\ proc.op[h] = "Flush"
        /\ proc.pc[k] = "ts_cs3" /\ proc.mu = k

SessionState == {"audio", "lastSegment", "promptTokens", "lastText", "language", "lastConf"}

\* The fields of the session state that the step at position pc reads and
\* writes.
Touches(pc) ==
    CASE pc = "ts_cs1" -> [r |-> {"language"}, w |-> {}]
      [] pc = "ts_cs2" -> [r |-> {"audio", "lastSegment", "lastText"}, w |-> {"audio"}]
      [] pc = "ts_cs3" -> [r |-> {},
                           w |-> {"language", "audio", "lastSegment", "lastText", "lastConf"}]
      [] pc = "fl_cs1" -> [r |-> {"language", "audio", "lastText"}, w |-> {}]
      [] pc = "fl_conf" -> [r |-> {"lastConf"}, w |-> {}]
      [] pc = "fl_cs2" -> [r |-> {}, w |-> SessionState]
      [] pc = "cl_cs" -> [r |-> {}, w |-> SessionState]
      [] pc = "ri_init" -> [r |-> {"promptTokens"}, w |-> {}]
      [] pc = "ri_collect" -> [r |-> {}, w |-> {"promptTokens"}]
      [] OTHER -> [r |-> {}, w |-> {}]

\* g is about to write a field that h is about to read or write.
Conflict(g, h) ==
    Touches(proc.pc[g]).w \cap (Touches(proc.pc[h]).r \cup Touches(proc.pc[h]).w) # {}

\* C38: no two calls are at a write and an access of the same field of the
\* session state at once: every such pair of steps is under a common mutex,
\* so a reset cannot fall into an inference's use of promptTokens.
C38_NoUnsynchronisedAccess ==
    \A g, h \in Goroutines : (g # h /\ ~proc.crashed) => ~Conflict(g, h)

\* The inference mutex is asked for with the state mutex held by nobody but
\* Close, and Close asks for the state mutex only with the inference mutex.
LockOrder ==
    \A g \in Goroutines :
        /\ proc.pc[g] = "ri_lock" => proc.mu # g
        /\ proc.pc[g] = "cl_lockInfer" => Holds(g) = {}
        /\ proc.pc[g] = "cl_lockMu" => Holds(g) = {"inferMu"}
        /\ proc.pc[g] \in {"ts_lock1", "ts_lock2", "ts_lock3", "fl_lock1", "fl_lock2", "sd_lock"}
              => Holds(g) = {}

\* C39: the mutexes are taken in a compatible order, and every call that has
\* begun returns, so that in the end no goroutine is inside a call (or the
\* process has died), given that the scheduler runs the goroutines and every
\* transcriber call returns.
C39_DeadlockFree ==
    /\ []LockOrder
    /\ <>[](proc.crashed \/ \A g \in Goroutines : proc.pc[g] = "idle")

\* Close holds the inference mutex and waits for the state mutex, which a
\* TranscribeSegment holds, while a third call waits for the inference mutex.
C39_Witness ==
    \E g, h, k \in Goroutines :
        /\ proc.pc[g] = "cl_lockMu" /\ proc.inferMu = g
        /\ proc.pc[h] = "ts_cs3" /\ proc.mu = h
        /\ proc.pc[k] = "ri_lock"

\* C40: Close frees the context only when no transcriber call is running,
\* frees it at most once, and no call enters the transcriber with the
\* context that Close has freed.
C40_CloseWaitsForInference ==
    /\ \A g, h \in Goroutines :
         proc.pc[g] = "cl_cs" => proc.pc[h] \notin InsideInference
    /\ proc.frees <= 1
    /\ \A g \in Goroutines : At(g, "ri_init") => proc.ctx = "live"

====
